---- MODULE Spec2Model ----
(***************************************************************************)
(* A model of Ferro's ISO resolution pipeline (src/ferro/src/iso_api.rs),  *)
(* its command driver (src/ferro/src/main.rs) and the static catalog       *)
(* (src/ferro/src/types.rs).                                               *)
(*                                                                         *)
(* Strings are sequences of one-character strings, so that substring       *)
(* search, case folding, splitting and formatting are computed the way     *)
(* the code computes them.  A few long fixed literals of the source are    *)
(* kept as one multi-character element; they are only ever concatenated    *)
(* and compared, never searched inside.                                    *)
(*                                                                         *)
(* Every network call is a suspension point: an action of the model is     *)
(* what the program does from the arrival of one response up to the issue  *)
(* of the next request (or the return of the command).                     *)
(***************************************************************************)
EXTENDS Integers, Sequences, FiniteSets, TLC

(***************************************************************************)
(* Rust's Option and Result.                                               *)
(***************************************************************************)
None == <<>>

Some(x) == <<x>>

is_some(o) == Len(o) = 1

unwrap(o) == o[1]

Ok(v) == [ok |-> TRUE, val |-> v]

\* anyhow!(fmt, args...): an error is its format string, cut at its placeholders,
\* and its arguments.
Err(fmt, args) == [ok |-> FALSE, fmt |-> fmt, args |-> args]

\* serde_json::Value Debug of a JSON string.
debug(value) == <<"String(\"">> \o value \o <<"\")">>

\* format!: the text with every placeholder replaced by its argument.
RECURSIVE format(_, _)
format(fmt, args) ==
  IF fmt = <<>> THEN <<>>
  ELSE IF fmt[1] = "{}" THEN args[1] \o format(Tail(fmt), Tail(args))
  ELSE IF fmt[1] = "{:?}" THEN debug(args[1]) \o format(Tail(fmt), Tail(args))
  ELSE <<fmt[1]>> \o format(Tail(fmt), args)

\* anyhow::Error Display: the message.
message(e) == format(e.fmt, e.args)

(***************************************************************************)
(* str operations.                                                         *)
(***************************************************************************)
UpperToLower ==
  "A" :> "a" @@ "B" :> "b" @@ "C" :> "c" @@ "D" :> "d" @@ "E" :> "e" @@ "F" :> "f"
  @@ "G" :> "g" @@ "H" :> "h" @@ "I" :> "i" @@ "J" :> "j" @@ "K" :> "k" @@ "L" :> "l"
  @@ "M" :> "m" @@ "N" :> "n" @@ "O" :> "o" @@ "P" :> "p" @@ "Q" :> "q" @@ "R" :> "r"
  @@ "S" :> "s" @@ "T" :> "t" @@ "U" :> "u" @@ "V" :> "v" @@ "W" :> "w" @@ "X" :> "x"
  @@ "Y" :> "y" @@ "Z" :> "z"

\* char::to_lowercase on ASCII text.
lower(c, map) == IF c \in DOMAIN map THEN map[c] ELSE c

to_lowercase(s) ==
  [i \in 1..Len(s) |-> lower(s[i], UpperToLower)]

\* str::contains(pat): pat occurs in s as a contiguous run.
contains(s, pat) ==
  \E i \in 0..(Len(s) - Len(pat)) : SubSeq(s, i + 1, i + Len(pat)) = pat

starts_with(s, pat) ==
  Len(pat) <= Len(s) /\ SubSeq(s, 1, Len(pat)) = pat

\* s.split(' ').next(): the text before the first space (all of s without one).
split_next(s) ==
  LET sp == {i \in 1..Len(s) : s[i] = " "}
  IN  IF sp = {} THEN s
      ELSE SubSeq(s, 1, (CHOOSE i \in sp : \A j \in sp : i <= j) - 1)

\* s.split(' ').next_back(): the text after the last space (all of s without one).
split_next_back(s) ==
  LET sp == {i \in 1..Len(s) : s[i] = " "}
  IN  IF sp = {} THEN s
      ELSE SubSeq(s, (CHOOSE i \in sp : \A j \in sp : i >= j) + 1, Len(s))

\* Iterator::find: of the positions that satisfy the predicate, the first; 0 if none.
first(hits) ==
  IF hits = {} THEN 0 ELSE CHOOSE i \in hits : \A j \in hits : i <= j

\* u64/usize Display: decimal digits.
RECURSIVE to_string(_)
to_string(n) ==
  LET d == <<"0","1","2","3","4","5","6","7","8","9">>
  IN  IF n < 10 THEN <<d[n + 1]>> ELSE to_string(n \div 10) \o <<d[(n % 10) + 1]>>

(***************************************************************************)
(* The catalog: types.rs, get_windows_versions.                            *)
(***************************************************************************)
get_windows_versions ==
  <<
    [name |-> <<"W","i","n","d","o","w","s"," ","1","1">>,
     page_type |-> <<"w","i","n","d","o","w","s","1","1">>,
     releases |-> <<
         [name |-> <<"2","4","H","2"," ","(","B","u","i","l","d"," ","2","6","1","0","0",".","1","7","4","2"," ","-"," ","2","0","2","4",".","1","0",")">>,
          editions |-> <<
              [name |-> <<"W","i","n","d","o","w","s"," ","1","1"," ","H","o","m","e","/","P","r","o","/","E","d","u">>,
               ids |-> <<3113, 3131>>],
              [name |-> <<"W","i","n","d","o","w","s"," ","1","1"," ","H","o","m","e"," ","C","h","i","n","a"," ">>,
               ids |-> <<3115, 3132>>],
              [name |-> <<"W","i","n","d","o","w","s"," ","1","1"," ","P","r","o"," ","C","h","i","n","a"," ">>,
               ids |-> <<3114, 3133>>] >>] >>],
    [name |-> <<"W","i","n","d","o","w","s"," ","1","0">>,
     page_type |-> <<"W","i","n","d","o","w","s","1","0","I","S","O">>,
     releases |-> <<
         [name |-> <<"2","2","H","2"," ","v","1"," ","(","B","u","i","l","d"," ","1","9","0","4","5",".","2","9","6","5"," ","-"," ","2","0","2","3",".","0","5",")">>,
          editions |-> <<
              [name |-> <<"W","i","n","d","o","w","s"," ","1","0"," ","H","o","m","e","/","P","r","o","/","E","d","u">>,
               ids |-> <<2618>>],
              [name |-> <<"W","i","n","d","o","w","s"," ","1","0"," ","H","o","m","e"," ","C","h","i","n","a"," ">>,
               ids |-> <<2378>>] >>] >>],
    [name |-> <<"U","E","F","I"," ","S","h","e","l","l"," ","2",".","2">>,
     page_type |-> <<"U","E","F","I","_","S","H","E","L","L"," ","2",".","2">>,
     releases |-> <<
         [name |-> <<"2","5","H","1"," ","(","e","d","k","2","-","s","t","a","b","l","e","2","0","2","5","0","5",")">>,
          editions |-> <<
              [name |-> <<"R","e","l","e","a","s","e">>,
               ids |-> <<0>>],
              [name |-> <<"D","e","b","u","g">>,
               ids |-> <<1>>] >>],
         [name |-> <<"2","4","H","2"," ","(","e","d","k","2","-","s","t","a","b","l","e","2","0","2","4","1","1",")">>,
          editions |-> <<
              [name |-> <<"R","e","l","e","a","s","e">>,
               ids |-> <<0>>],
              [name |-> <<"D","e","b","u","g">>,
               ids |-> <<1>>] >>],
         [name |-> <<"2","4","H","1"," ","(","e","d","k","2","-","s","t","a","b","l","e","2","0","2","4","0","5",")">>,
          editions |-> <<
              [name |-> <<"R","e","l","e","a","s","e">>,
               ids |-> <<0>>],
              [name |-> <<"D","e","b","u","g">>,
               ids |-> <<1>>] >>],
         [name |-> <<"2","3","H","2"," ","(","e","d","k","2","-","s","t","a","b","l","e","2","0","2","3","1","1",")">>,
          editions |-> <<
              [name |-> <<"R","e","l","e","a","s","e">>,
               ids |-> <<0>>],
              [name |-> <<"D","e","b","u","g">>,
               ids |-> <<1>>] >>],
         [name |-> <<"2","3","H","1"," ","(","e","d","k","2","-","s","t","a","b","l","e","2","0","2","3","0","5",")">>,
          editions |-> <<
              [name |-> <<"R","e","l","e","a","s","e">>,
               ids |-> <<0>>],
              [name |-> <<"D","e","b","u","g">>,
               ids |-> <<1>>] >>],
         [name |-> <<"2","2","H","2"," ","(","e","d","k","2","-","s","t","a","b","l","e","2","0","2","2","1","1",")">>,
          editions |-> <<
              [name |-> <<"R","e","l","e","a","s","e">>,
               ids |-> <<0>>],
              [name |-> <<"D","e","b","u","g">>,
               ids |-> <<1>>] >>],
         [name |-> <<"2","2","H","1"," ","(","e","d","k","2","-","s","t","a","b","l","e","2","0","2","2","0","5",")">>,
          editions |-> <<
              [name |-> <<"R","e","l","e","a","s","e">>,
               ids |-> <<0>>],
              [name |-> <<"D","e","b","u","g">>,
               ids |-> <<1>>] >>],
         [name |-> <<"2","1","H","2"," ","(","e","d","k","2","-","s","t","a","b","l","e","2","0","2","1","0","8",")">>,
          editions |-> <<
              [name |-> <<"R","e","l","e","a","s","e">>,
               ids |-> <<0>>],
              [name |-> <<"D","e","b","u","g">>,
               ids |-> <<1>>] >>],
         [name |-> <<"2","1","H","1"," ","(","e","d","k","2","-","s","t","a","b","l","e","2","0","2","1","0","5",")">>,
          editions |-> <<
              [name |-> <<"R","e","l","e","a","s","e">>,
               ids |-> <<0>>],
              [name |-> <<"D","e","b","u","g">>,
               ids |-> <<1>>] >>],
         [name |-> <<"2","0","H","2"," ","(","e","d","k","2","-","s","t","a","b","l","e","2","0","2","0","1","1",")">>,
          editions |-> <<
              [name |-> <<"R","e","l","e","a","s","e">>,
               ids |-> <<0>>],
              [name |-> <<"D","e","b","u","g">>,
               ids |-> <<1>>] >>] >>],
    [name |-> <<"U","E","F","I"," ","S","h","e","l","l"," ","2",".","0">>,
     page_type |-> <<"U","E","F","I","_","S","H","E","L","L"," ","2",".","0">>,
     releases |-> <<
         [name |-> <<"4",".","6","3","2"," ","[","2","0","1","0","0","4","2","6","]">>,
          editions |-> <<
              [name |-> <<"R","e","l","e","a","s","e">>,
               ids |-> <<0>>] >>] >>]
  >>
(***************************************************************************)
(* Catalog lookups of IsoApi: no network, no state.                        *)
(***************************************************************************)
\* .iter().find(|x| x.name.to_lowercase().contains(&name.to_lowercase())): the
\* position of the first such entry of list, 0 if there is none.
\* A lookup that takes the last such entry.
find_by_name_last(list, name) ==
  LET hits == {i \in 1..Len(list) :
                 contains(to_lowercase(list[i].name), to_lowercase(name))}
  IN  IF hits = {} THEN 0 ELSE CHOOSE i \in hits : \A j \in hits : j <= i

find_by_name(list, name) ==
  first({i \in 1..Len(list) :
           contains(to_lowercase(list[i].name), to_lowercase(name))})

find_version(version_name) == find_by_name(get_windows_versions, version_name)

version_list(versions) ==
  [i \in 1..Len(versions) |->
     [name |-> versions[i].name, page_type |-> versions[i].page_type, index |-> i - 1]]

get_available_versions == Ok(version_list(get_windows_versions))

release_list(rs) == [i \in 1..Len(rs) |-> [name |-> rs[i].name, index |-> i - 1]]

\* A lookup that falls back to the first version when none matches.
releases_of_lenient(versions, v, version_name) ==
  Ok(release_list(versions[IF v = 0 THEN 1 ELSE v].releases))

releases_of(versions, v, version_name) ==
  IF v = 0
  THEN Err(<<"Version '", "{}", "' not found">>, <<version_name>>)
  ELSE Ok(release_list(versions[v].releases))

get_releases(version_name) ==
  releases_of(get_windows_versions, find_version(version_name), version_name)

edition_list(es) == [i \in 1..Len(es) |-> [name |-> es[i].name, id |-> es[i].ids]]

editions_in(rs, r, release_name) ==
  IF r = 0
  THEN Err(<<"Release '", "{}", "' not found">>, <<release_name>>)
  ELSE Ok(edition_list(rs[r].editions))

editions_of(versions, v, version_name, release_name) ==
  IF v = 0
  THEN Err(<<"Version '", "{}", "' not found">>, <<version_name>>)
  ELSE editions_in(versions[v].releases,
                   find_by_name(versions[v].releases, release_name), release_name)

get_editions(version_name, release_name) ==
  editions_of(get_windows_versions, find_version(version_name), version_name,
              release_name)


(***************************************************************************)
(* The state of one process: the IsoApi object, the position of the        *)
(* command in flight, and a record of the requests and sleeps it has made. *)
(***************************************************************************)
VARIABLES
  system_locale,   \* utils::get_system_locale() on this host
  system_arch,     \* utils::get_system_architecture() on this host
  query_locale,    \* IsoApi.query_locale
  session_ids,     \* IsoApi.session_ids: branch index -> session id
  uuid_count,      \* how many session identifiers Uuid::new_v4 has produced
  pc,              \* the request the program is waiting on, or "ready" / "done"
  frame,           \* the arguments and locals of the IsoApi call in flight
  ret,             \* the value the last IsoApi call returned
  cmd,             \* the command line being served
  stage,           \* the position inside handle_download_command / handle_list_command
  out,             \* what the command printed, its error, the downloader call it made
  log,             \* the requests, results and sleeps of the IsoApi call in flight
  received         \* the response that arrived last, and the request it answers

vars == <<system_locale, system_arch, query_locale, session_ids, uuid_count,
          pc, frame, ret, cmd, stage, out, log, received>>

\* The state as one value, for the operators that run the code between two requests.
St ==
  [query_locale |-> query_locale, session_ids |-> session_ids,
   uuid_count |-> uuid_count, pc |-> pc, frame |-> frame, ret |-> ret,
   cmd |-> cmd, stage |-> stage, out |-> out, log |-> log, received |-> received,
   system_locale |-> system_locale, system_arch |-> system_arch]

Become(s) ==
  /\ query_locale' = s.query_locale
  /\ session_ids' = s.session_ids
  /\ uuid_count' = s.uuid_count
  /\ pc' = s.pc
  /\ frame' = s.frame
  /\ ret' = s.ret
  /\ cmd' = s.cmd
  /\ stage' = s.stage
  /\ out' = s.out
  /\ log' = s.log
  /\ received' = s.received
  /\ UNCHANGED <<system_locale, system_arch>>

\* The step to the state s, computed once.
Step(s) == \E next \in {s} : Become(next)

\* Uuid::new_v4().to_string(): the n-th identifier of this process.  Version-4
\* identifiers are taken to be pairwise distinct.
uuid_to_string(n) == <<"uuid-">> \o to_string(n)

\* A logged request or sleep.  idx is the funnel branch the request belongs to.
Ev(e, sid, idx, arg, locale) ==
  [e |-> e, sid |-> sid, idx |-> idx, arg |-> arg, locale |-> locale]

\* tokio::time::sleep of between lo and hi milliseconds.
Sleep(lo, hi) == Ev("sleep", <<>>, 0, <<lo, hi>>, <<>>)

\* The Result of a finished request: whether it was Ok.
Done(what, ok) == Ev(IF ok THEN "ok" ELSE "err", <<>>, 0, what, <<>>)

\* What a request that went well brought back: the Skus or the download options of
\* the document, none when the field is absent.
Got(what, idx, items) ==
  Ev(what, <<>>, idx, IF is_some(items) THEN unwrap(items) ELSE <<>>, <<>>)

log_ev(s, ev) == [s EXCEPT !.log = Append(@, ev)]

NoFrame ==
  [op |-> "", version_name |-> <<>>, release_name |-> <<>>, edition_name |-> <<>>,
   language_name |-> <<>>, architecture_name |-> <<>>, ids |-> <<>>,
   session_index |-> 0, session_id |-> <<>>, languages |-> <<>>, data |-> <<>>,
   entry |-> 0, architectures |-> <<>>, product_edition_id |-> 0,
   retry_count |-> 0, link |-> <<>>]

\* An IsoApi call returns r to its caller; its locals are gone.
api_return(s, r) == [s EXCEPT !.pc = "ret", !.ret = r, !.frame = NoFrame]

\* Control passes to the place named at, carrying the value r.
pass(s, at, r) == [s EXCEPT !.pc = at, !.ret = r]

goto(s, at) == [s EXCEPT !.pc = at]

(***************************************************************************)
(* get_download_url, after get_architectures has returned.                 *)
(***************************************************************************)
\* A lookup that accepts a name containing the requested one.
download_url_result_containing(architectures, architecture_name) ==
  LET a == first({i \in 1..Len(architectures) :
                    contains(to_lowercase(architectures[i].name),
                             to_lowercase(architecture_name))})
  IN  IF a = 0
      THEN Err(<<"Architecture '", "{}", "' not found">>, <<architecture_name>>)
      ELSE Ok(architectures[a].url)

download_url_result(architectures, architecture_name) ==
  LET a == first({i \in 1..Len(architectures) :
                    to_lowercase(architectures[i].name) = to_lowercase(architecture_name)})
  IN  IF a = 0
      THEN Err(<<"Architecture '", "{}", "' not found">>, <<architecture_name>>)
      ELSE Ok(architectures[a].url)

\* get_architectures returns r: to the command, or into get_download_url.
get_architectures_return(s, r) ==
  api_return(s, IF s.frame.op = "get_download_url" /\ r.ok
                THEN download_url_result(r.val, s.frame.architecture_name)
                ELSE r)

(***************************************************************************)
(* get_download_links: the request, and the handling of its response.      *)
(***************************************************************************)
\* A sentinel that is the type code of an ordinary error.
BanSentinelOne == 0 + 1

BanSentinel == 9

\* A request that always asks in the default locale.
get_download_links_send_default_locale(s, sku_id, session_id) ==
  [log_ev(s, Ev("links", session_id, s.frame.data[s.frame.entry].session_index,
                sku_id, <<"e","n","-","U","S">>))
     EXCEPT !.pc = "links", !.frame.session_id = session_id]

get_download_links_send(s, sku_id, session_id) ==
  [log_ev(s, Ev("links", session_id, s.frame.data[s.frame.entry].session_index,
                sku_id, s.query_locale))
     EXCEPT !.pc = "links", !.frame.session_id = session_id]

\* A check that looks at the legacy error list only.
has_validation_errors_skipped(a) == is_some(a.validation_container) /\ FALSE

has_validation_errors(a) ==
  is_some(a.validation_container) /\ unwrap(a.validation_container).errors # <<>>

has_legacy_errors(a) ==
  is_some(a.errors) /\ unwrap(a.errors) # <<>>

\* serde_json::from_str::<MicrosoftApiResponse>: None when the text is no such document.
from_str(resp) == resp.json

\* What get_download_links makes of a response: "ok" with the parsed document, "err"
\* with the error it returns, or "ban" when it goes on to fetch the ban message.
get_download_links_outcome(resp) ==
  IF ~resp.sent
  THEN [kind |-> "err", r |-> Err(<<"Failed to get download links">>, <<>>)]
  ELSE IF ~resp.readable
  THEN [kind |-> "err", r |-> Err(<<"Failed to get download links response text">>, <<>>)]
  ELSE IF ~is_some(from_str(resp))
  THEN [kind |-> "err",
        r |-> Err(<<"Failed to parse download links response. Response was: ", "{}">>,
                  <<resp.text>>)]
  ELSE LET a == unwrap(from_str(resp))
       IN  IF has_validation_errors(a)
           THEN [kind |-> "err",
                 r |-> Err(<<"API error: ", "{:?}">>, <<unwrap(a.validation_container).errors[1]>>)]
           ELSE IF has_legacy_errors(a)
           THEN IF unwrap(a.errors)[1].error_type = BanSentinel
                THEN [kind |-> "ban", r |-> Ok(a)]
                ELSE [kind |-> "err",
                      r |-> Err(<<"API error: ", "{}">>, <<unwrap(a.errors)[1].value>>)]
           ELSE [kind |-> "ok", r |-> Ok(a)]

(***************************************************************************)
(* get_code_715_123130_message: the text of the ban, from the landing page.*)
(***************************************************************************)
MsgOpen == "<input id=\"msg-01\" type=\"hidden\" value=\""

MsgClose == "\"/>"

\* The reference code, in two pieces so that markup can stand between them.
BanCode == <<"715-", "123130">>

FallbackMessage ==
  <<"Your IP address has been banned by Microsoft for issuing too many ISO download requests or for belonging to a region of the world where sanctions currently apply. Please try again later.\nIf you believe this ban to be in error, you can try contacting Microsoft by referring to message code ">>
  \o BanCode \o <<" and session ID ">>

is_whitespace(c) == c \in {" ", "\t", "\n"}

\* Regex <input id="msg-01" type="hidden" value="(.*?)"/>, first match, group 1:
\* the text between the leftmost opening and the first closing after it; '.' does
\* not match a line break.
msg_capture(html) ==
  LET closes(i) == {j \in (i + 1)..Len(html) : html[j] = MsgClose}
      first_close(i) == CHOOSE j \in closes(i) : \A k \in closes(i) : j <= k
      opens == {i \in 1..Len(html) :
                  /\ html[i] = MsgOpen
                  /\ closes(i) # {}
                  /\ \A k \in (i + 1)..(first_close(i) - 1) : html[k] # "\n"}
  IN  IF opens = {} THEN None
      ELSE LET i == CHOOSE x \in opens : \A y \in opens : x <= y
           IN  Some(SubSeq(html, i + 1, first_close(i) - 1))

\* .replace("&lt;", "<").replace("&gt;", ">").replace("&amp;", "&")
unescape(msg) ==
  [i \in 1..Len(msg) |->
     CASE msg[i] = "&lt;" -> "<"
       [] msg[i] = "&gt;" -> ">"
       [] msg[i] = "&amp;" -> "&"
       [] OTHER -> msg[i]]

\* Regex <[^>]+> replaced by nothing, everywhere.
RECURSIVE strip_tags(_)
strip_tags(m) ==
  IF m = <<>> THEN <<>>
  ELSE LET ends == {q \in 3..Len(m) : m[q] = ">" /\ \A k \in 2..(q - 1) : m[k] # ">"}
       IN  IF m[1] = "<" /\ ends # {}
           THEN strip_tags(SubSeq(m, (CHOOSE q \in ends : TRUE) + 1, Len(m)))
           ELSE <<m[1]>> \o strip_tags(Tail(m))

\* Regex \s+ replaced by one space, everywhere.
RECURSIVE collapse_whitespace(_)
collapse_whitespace(m) ==
  IF m = <<>> THEN <<>>
  ELSE IF is_whitespace(m[1])
       THEN LET rest == collapse_whitespace(Tail(m))
            IN  IF rest # <<>> /\ rest[1] = " " /\ Len(m) > 1 /\ is_whitespace(m[2])
                THEN rest
                ELSE <<" ">> \o rest
       ELSE <<m[1]>> \o collapse_whitespace(Tail(m))

\* str::trim
trim(m) ==
  LET solid == {i \in 1..Len(m) : ~is_whitespace(m[i])}
  IN  IF solid = {} THEN <<>>
      ELSE SubSeq(m, CHOOSE i \in solid : \A j \in solid : i <= j,
                     CHOOSE i \in solid : \A j \in solid : i >= j)

clean_message(captured) == collapse_whitespace(strip_tags(unescape(captured)))

\* A resolution that returns the extracted text whatever it says.
get_code_715_123130_message_unchecked(resp) ==
  IF resp.sent /\ resp.readable /\ is_some(msg_capture(resp.text))
  THEN trim(clean_message(unwrap(msg_capture(resp.text)))) \o <<" Session ID: ">>
  ELSE FallbackMessage

get_code_715_123130_message(resp) ==
  IF resp.sent /\ resp.readable /\ is_some(msg_capture(resp.text))
     /\ contains(clean_message(unwrap(msg_capture(resp.text))), BanCode)
  THEN trim(clean_message(unwrap(msg_capture(resp.text)))) \o <<" Session ID: ">>
  ELSE FallbackMessage

get_code_715_123130_message_send(s) ==
  [log_ev(s, Ev("page", <<>>, 0, <<>>, s.query_locale)) EXCEPT !.pc = "page"]

\* A ban error that leaves the session id out.
ban_error_without_session(ban_message, session_id) == [ok |-> FALSE, fmt |-> <<"{}">>, args |-> <<ban_message>>]

\* The error get_download_links returns for a ban: "{} {}" of message and session id.
ban_error(ban_message, session_id) == Err(<<"{}", " ", "{}">>, <<ban_message, session_id>>)

get_code_715_123130_message_recv(s, resp) ==
  pass(
    log_ev(s, Done("links", FALSE)), "get_architectures_return",
    ban_error(get_code_715_123130_message(resp), s.frame.session_id))

(***************************************************************************)
(* get_architectures: the loop over the matched language's entries.        *)
(***************************************************************************)
\* A table with the first two names exchanged.
get_arch_from_type_swapped(arch_type) ==
  CASE arch_type = 0 -> <<"x","6","4">>
    [] arch_type = 1 -> <<"x","8","6">>
    [] arch_type = 2 -> <<"A","R","M","6","4">>
    [] OTHER -> <<"U","n","k","n","o","w","n">>

get_arch_from_type(arch_type) ==
  CASE arch_type = 0 -> <<"x","8","6">>
    [] arch_type = 1 -> <<"x","6","4">>
    [] arch_type = 2 -> <<"A","R","M","6","4">>
    [] OTHER -> <<"U","n","k","n","o","w","n">>

\* A registry that hands out branch 0's session id for every branch.
session_ids_get_first(map, session_index) ==
  IF 0 \in DOMAIN map THEN <<map[0]>> ELSE <<>>

\* A lookup under the index after the entry's own.
session_ids_get_next(map, session_index) ==
  IF session_index + 1 \in DOMAIN map THEN Some(map[session_index + 1]) ELSE None

\* self.session_ids.get(&language_data.session_index)
session_ids_get(map, session_index) ==
  IF session_index \in DOMAIN map THEN Some(map[session_index]) ELSE None

\* The top of the loop body for entry s.frame.entry, up to the download-links request.
links_entry(s) ==
  IF s.frame.entry > Len(s.frame.data)
  THEN pass(s, "get_architectures_return", Ok(s.frame.architectures))
  ELSE LET d == s.frame.data[s.frame.entry]
       IN  IF ~is_some(session_ids_get(s.session_ids, d.session_index))
           THEN pass(log_ev(s, Sleep(500, 1499)), "get_architectures_return",
                     Err(<<"Session ID not found for index ", "{}">>,
                         <<to_string(d.session_index)>>))
           ELSE get_download_links_send(
                  log_ev(s, Sleep(500, 1499)), d.sku_id,
                  unwrap(session_ids_get(s.session_ids, d.session_index)))

\* A collection that keeps the options of the latest response only.
push_options_latest(architectures, a) ==
  IF is_some(a.product_download_options)
  THEN [i \in 1..Len(unwrap(a.product_download_options)) |->
          [name |-> get_arch_from_type(unwrap(a.product_download_options)[i].download_type),
           url |-> unwrap(a.product_download_options)[i].uri]]
  ELSE architectures

\* architectures.push(...) for every option of the response.
push_options(architectures, a) ==
  IF is_some(a.product_download_options)
  THEN architectures \o
       [i \in 1..Len(unwrap(a.product_download_options)) |->
          [name |-> get_arch_from_type(unwrap(a.product_download_options)[i].download_type),
           url |-> unwrap(a.product_download_options)[i].uri]]
  ELSE architectures

\* A loop that passes over an entry whose request failed.
get_download_links_recv_skipping(s, resp) ==
  LET o == get_download_links_outcome(resp)
  IN  CASE o.kind = "ban" -> get_code_715_123130_message_send(s)
        [] o.kind = "err" ->
             goto([log_ev(s, Done("links", FALSE)) EXCEPT !.frame.entry = @ + 1],
                  "links_entry")
        [] OTHER ->
             goto([log_ev(log_ev(s, Done("links", TRUE)),
                          Got("options", s.frame.data[s.frame.entry].session_index,
                              o.r.val.product_download_options))
                     EXCEPT !.frame.architectures = push_options(@, o.r.val),
                            !.frame.entry = @ + 1],
                  "links_entry")

get_download_links_recv(s, resp) ==
  LET o == get_download_links_outcome(resp)
  IN  CASE o.kind = "ban" -> get_code_715_123130_message_send(s)
        [] o.kind = "err" ->
             pass(log_ev(s, Done("links", FALSE)), "get_architectures_return", o.r)
        [] OTHER ->
             goto([log_ev(log_ev(s, Done("links", TRUE)),
                          Got("options", s.frame.data[s.frame.entry].session_index,
                              o.r.val.product_download_options))
                     EXCEPT !.frame.architectures = push_options(@, o.r.val),
                            !.frame.entry = @ + 1],
                  "links_entry")

(***************************************************************************)
(* get_uefi_shell_architectures: the firmware-shell path.                  *)
(***************************************************************************)
\* A release tag that is the whole release name.
uefi_tag_whole(release_name) == release_name

uefi_tag(release_name) == split_next(release_name)

uefi_shell_version(version_name) == split_next_back(version_name)

uefi_base_url(release_name) ==
  <<"https://github.com/pbatard/UEFI-Shell/releases/download/">> \o uefi_tag(release_name)

uefi_link(version_name, release_name, edition_name) ==
  LET link_base == uefi_base_url(release_name) \o <<"/UEFI-Shell-">>
                   \o uefi_shell_version(version_name) \o <<"-">> \o uefi_tag(release_name)
  IN  IF contains(to_lowercase(edition_name), <<"r","e","l","e","a","s","e">>)
      THEN link_base \o <<"-RELEASE.iso">>
      ELSE link_base \o <<"-DEBUG.iso">>

get_uefi_shell_architectures_send(s) ==
  [log_ev(s, Ev("xml", <<>>, 0,
                uefi_base_url(s.frame.release_name) \o <<"/Version.xml">>, <<>>))
     EXCEPT !.pc = "xml",
            !.frame.link = uefi_link(s.frame.version_name, s.frame.release_name,
                                     s.frame.edition_name)]

\* Regex <arch>([^<]+)</arch>, every match, group 1.  In a document the tags
\* "<arch>" and "</arch>" and a stray "<" are single elements; every other element is
\* one character of text.
is_markup(x) == x \in {"<arch>", "</arch>", "<"}

RECURSIVE parse_uefi_architectures(_)
parse_uefi_architectures(xml) ==
  IF xml = <<>> THEN <<>>
  ELSE LET marks == {i \in 2..Len(xml) : is_markup(xml[i])}
           close == CHOOSE i \in marks : \A j \in marks : i <= j
       IN  IF xml[1] = "<arch>" /\ marks # {} /\ close > 2 /\ xml[close] = "</arch>"
           THEN <<SubSeq(xml, 2, close - 1)>>
                \o parse_uefi_architectures(SubSeq(xml, close + 1, Len(xml)))
           ELSE parse_uefi_architectures(Tail(xml))

\* [String]::join(", ")
RECURSIVE join(_)
join(archs) ==
  IF archs = <<>> THEN <<>>
  ELSE IF Len(archs) = 1 THEN archs[1]
  ELSE archs[1] \o <<",", " ">> \o join(Tail(archs))

DefaultUefiArchitectures == <<"x","6","4",","," ","A","R","M","6","4",","," ","I","A","3","2">>

is_success(status) == status >= 200 /\ status <= 299

\* A fetch of Version.xml whose failure is the failure of the operation.
get_uefi_shell_architectures_result_strict(resp, link) ==
  IF resp.sent /\ is_success(resp.status) /\ resp.readable
     /\ parse_uefi_architectures(resp.text) # <<>>
  THEN Ok(<<[name |-> join(parse_uefi_architectures(resp.text)), url |-> link]>>)
  ELSE Err(<<"Could not fetch UEFI Shell version information">>, <<>>)

get_uefi_shell_architectures_result(resp, link) ==
  IF resp.sent /\ is_success(resp.status) /\ resp.readable
     /\ parse_uefi_architectures(resp.text) # <<>>
  THEN Ok(<<[name |-> join(parse_uefi_architectures(resp.text)), url |-> link]>>)
  ELSE Ok(<<[name |-> DefaultUefiArchitectures, url |-> link]>>)

get_uefi_shell_architectures_recv(s, resp) ==
  pass(s, "get_architectures_return",
       get_uefi_shell_architectures_result(resp, s.frame.link))

(***************************************************************************)
(* get_languages, and the part of get_architectures that follows it.       *)
(***************************************************************************)
\* HashMap::into_values: the records in an order the program does not control.  ord
\* ranks the insertion positions.
into_values(languages, ord) ==
  LET n == Len(languages)
      before(k) == {j \in 1..n : \E x, y \in DOMAIN ord : x < y /\ ord[x] = j /\ ord[y] = k}
  IN  [i \in 1..n |-> languages[CHOOSE k \in 1..n : Cardinality(before(k)) = i - 1]]

find_language(languages, language_name) ==
  first({i \in 1..Len(languages) :
           \/ contains(to_lowercase(languages[i].name), to_lowercase(language_name))
           \/ contains(to_lowercase(languages[i].display_name),
                       to_lowercase(language_name))})

\* get_languages returns r: to the command, or into get_architectures, which looks
\* the language up and enters its loop.
get_languages_return(s, r) ==
  IF s.frame.op = "get_languages" THEN api_return(s, r)
  ELSE IF ~r.ok THEN pass(s, "get_architectures_return", r)
  ELSE LET l == find_language(r.val, s.frame.language_name)
       IN  IF l = 0
           THEN pass(s, "get_architectures_return",
                     Err(<<"Language '", "{}", "' not found">>, <<s.frame.language_name>>))
           ELSE goto([s EXCEPT !.frame.data = r.val[l].data,
                               !.frame.entry = 1,
                               !.frame.architectures = <<>>],
                     "links_entry")

\* languages.entry(sku.language).or_insert_with(...).data.push(...), for every Sku of
\* one response, in order.  languages lists the map's records by insertion.
\* A map whose records keep only the entry filed last.
RECURSIVE insert_skus_overwriting(_, _, _)
insert_skus_overwriting(languages, skus, session_index) ==
  IF skus = <<>> THEN languages
  ELSE LET sku  == skus[1]
           at   == first({i \in 1..Len(languages) : languages[i].name = sku.language})
           item == [session_index |-> session_index, sku_id |-> sku.id]
           next == IF at = 0
                   THEN Append(languages,
                               [name |-> sku.language,
                                display_name |-> sku.localized_language,
                                data |-> <<item>>])
                   ELSE [languages EXCEPT ![at].data = <<item>>]
       IN  insert_skus_overwriting(next, Tail(skus), session_index)

RECURSIVE insert_skus(_, _, _)
insert_skus(languages, skus, session_index) ==
  IF skus = <<>> THEN languages
  ELSE LET sku  == skus[1]
           at   == first({i \in 1..Len(languages) : languages[i].name = sku.language})
           item == [session_index |-> session_index, sku_id |-> sku.id]
           next == IF at = 0
                   THEN Append(languages,
                               [name |-> sku.language,
                                display_name |-> sku.localized_language,
                                data |-> <<item>>])
                   ELSE [languages EXCEPT ![at].data = Append(@, item)]
       IN  insert_skus(next, Tail(skus), session_index)

\* HashMap::insert
map_insert(m, k, v) == [x \in (DOMAIN m) \cup {k} |-> IF x = k THEN v ELSE m[x]]

(***************************************************************************)
(* whitelist_session and try_get_sku_information: request and response.    *)
(***************************************************************************)
whitelist_session_send(s, session_id) ==
  [log_ev(s, Ev("whitelist", session_id, s.frame.session_index,
                <<"y","6","j","n","8","c","3","1">>, <<>>))
     EXCEPT !.pc = "whitelist"]

\* reqwest::Error Display of a request that could not be sent.
send_error == <<"error sending request">>

\* client.get(url).send(): Ok for every response received, whatever its status.
whitelist_session_result(resp) ==
  IF resp.sent THEN Ok(<<>>)
  ELSE Err(<<"Session whitelisting failed: ", "{}">>, <<send_error>>)

try_get_sku_information_send(s, product_edition_id, session_id, attempt) ==
  [log_ev(s, Ev("sku", session_id, s.frame.session_index,
                <<product_edition_id, attempt>>, s.query_locale))
     EXCEPT !.pc = "sku"]

\* StatusCode Display: the code and its canonical reason phrase.
status_display(status) ==
  to_string(status) \o
  <<" ", CASE status = 200 -> "OK"
           [] status = 403 -> "Forbidden"
           [] status = 404 -> "Not Found"
           [] status = 500 -> "Internal Server Error"
           [] OTHER -> "<unknown status code>">>

\* response_text.trim().is_empty()
is_blank(text) == \A i \in 1..Len(text) : is_whitespace(text[i])

try_get_sku_information_result(resp) ==
  IF ~resp.sent THEN Err(<<"Failed to get SKU information">>, <<>>)
  ELSE IF ~resp.readable THEN Err(<<"Failed to get response text">>, <<>>)
  ELSE IF is_blank(resp.text)
  THEN Err(<<"API returned empty response. Status: ", "{}", ". This might indicate that the API is blocking our requests or requires additional authentication.">>,
           <<status_display(resp.status)>>)
  ELSE IF ~is_some(from_str(resp))
  THEN Err(<<"Failed to parse SKU information response. Response was: ", "{}">>, <<resp.text>>)
  ELSE LET a == unwrap(from_str(resp))
       IN  IF has_validation_errors(a)
           THEN Err(<<"API error: ", "{:?}">>, <<unwrap(a.validation_container).errors[1]>>)
           ELSE IF has_legacy_errors(a)
           THEN Err(<<"API error: ", "{}">>, <<unwrap(a.errors)[1].value>>)
           ELSE Ok(a)

(***************************************************************************)
(* get_languages: the loop over the edition's identifiers.                 *)
(***************************************************************************)
\* The top of the loop body for branch s.frame.session_index: a new session id,
\* stored under the index, and the whitelist request.
\* A loop body that whitelists the new session id before it is stored.
languages_branch_unregistered(s) ==
  LET session_id == uuid_to_string(s.uuid_count + 1)
  IN  whitelist_session_send(
        [s EXCEPT !.uuid_count = @ + 1,
                  !.frame.session_id = session_id],
        session_id)

languages_branch(s) ==
  LET session_id == uuid_to_string(s.uuid_count + 1)
  IN  whitelist_session_send(
        [s EXCEPT !.uuid_count = @ + 1,
                  !.session_ids = map_insert(@, s.frame.session_index, session_id),
                  !.frame.session_id = session_id],
        session_id)

\* After the whitelist response: `?`, then the pacing sleep and the SKU request.
whitelist_session_recv(s, resp) ==
  IF ~whitelist_session_result(resp).ok
  THEN pass(log_ev(s, Done("whitelist", FALSE)), "get_languages_return",
            whitelist_session_result(resp))
  ELSE try_get_sku_information_send(
         log_ev(log_ev(s, Done("whitelist", TRUE)), Sleep(500, 1499)),
         s.frame.ids[s.frame.session_index + 1], s.frame.session_id, 0)

\* A branch that takes its session id out of the registry when its SKU call fails.
languages_sku_recv_rolling_back(s, resp, ord) ==
  LET r == try_get_sku_information_result(resp)
  IN  IF ~r.ok
      THEN pass([log_ev(s, Done("sku", FALSE)) EXCEPT
                   !.session_ids = [k \in DOMAIN @ \ {s.frame.session_index} |-> @[k]]],
                "get_languages_return", r)
      ELSE LET s1 == [log_ev(log_ev(s, Done("sku", TRUE)),
                             Got("skus", s.frame.session_index, r.val.skus)) EXCEPT
                        !.frame.languages =
                           IF is_some(r.val.skus)
                           THEN insert_skus(@, unwrap(r.val.skus), s.frame.session_index)
                           ELSE @,
                        !.frame.session_index = @ + 1]
           IN  IF s1.frame.session_index < Len(s1.frame.ids)
               THEN goto(s1, "languages_branch")
               ELSE pass(s1, "get_languages_return",
                         Ok(into_values(s1.frame.languages, ord)))

\* After the SKU response in get_languages: `?`, then the Skus are filed and the
\* loop goes on, or ends with the records in the order ord.
languages_sku_recv(s, resp, ord) ==
  LET r == try_get_sku_information_result(resp)
  IN  IF ~r.ok THEN pass(log_ev(s, Done("sku", FALSE)), "get_languages_return", r)
      ELSE LET s1 == [log_ev(log_ev(s, Done("sku", TRUE)),
                             Got("skus", s.frame.session_index, r.val.skus)) EXCEPT
                        !.frame.languages =
                           IF is_some(r.val.skus)
                           THEN insert_skus(@, unwrap(r.val.skus), s.frame.session_index)
                           ELSE @,
                        !.frame.session_index = @ + 1]
           IN  IF s1.frame.session_index < Len(s1.frame.ids)
               THEN goto(s1, "languages_branch")
               ELSE pass(s1, "get_languages_return",
                         Ok(into_values(s1.frame.languages, ord)))

\* The head of get_languages, up to the first request (or its return).
get_languages_begin(s) ==
  IF contains(to_lowercase(s.frame.version_name), <<"u","e","f","i">>)
  THEN pass(s, "get_languages_return",
            Ok(<<[name |-> <<"e","n","-","u","s">>,
                  display_name |-> <<"E","n","g","l","i","s","h"," ","(","U","S",")">>,
                  data |-> <<[session_index |-> 0, sku_id |-> <<"1">>]>>]>>))
  ELSE pass(s, "editions", get_editions(s.frame.version_name, s.frame.release_name))

\* get_languages with the editions of the release at hand.
get_languages_editions(s, editions) ==
  IF ~editions.ok THEN pass(s, "get_languages_return", editions)
  ELSE LET e == find_by_name(editions.val, s.frame.edition_name)
       IN  IF e = 0
           THEN pass(s, "get_languages_return",
                     Err(<<"Edition '", "{}", "' not found">>, <<s.frame.edition_name>>))
           ELSE IF editions.val[e].id = <<>>
           THEN pass(s, "get_languages_return", Ok(<<>>))
           ELSE goto([s EXCEPT !.frame.ids = editions.val[e].id,
                               !.frame.session_index = 0,
                               !.frame.languages = <<>>],
                     "languages_branch")

\* The head of get_architectures.
get_architectures_begin(s) ==
  IF contains(to_lowercase(s.frame.version_name), <<"u","e","f","i">>)
  THEN get_uefi_shell_architectures_send(s)
  ELSE goto(s, "get_languages")

(***************************************************************************)
(* get_sku_information_with_retry.  No command reaches it (the source      *)
(* marks it dead code); SpecRetry drives it on its own.                    *)
(***************************************************************************)
\* One attempt more than the controller allows.
max_retries_four == 3 + 1

max_retries == 3

\* A backoff that starts at one second.
backoff_secs_from_one(retry_count) == 2 ^ retry_count

\* 2u64.pow(retry_count + 1)
backoff_secs(retry_count) == 2 ^ (retry_count + 1)

get_sku_information_with_retry_recv(s0, resp) ==
  LET r == try_get_sku_information_result(resp)
      s == log_ev(s0, Done("sku", r.ok))
  IN  IF r.ok THEN api_return(s, r)
      ELSE IF s.frame.retry_count < max_retries - 1
      THEN LET s1 == [log_ev(s, Sleep(backoff_secs(s.frame.retry_count) * 1000,
                                      backoff_secs(s.frame.retry_count) * 1000))
                        EXCEPT !.frame.retry_count = @ + 1]
           IN  IF s1.frame.retry_count < max_retries
               THEN try_get_sku_information_send(
                      s1, s1.frame.product_edition_id, s1.frame.session_id,
                      s1.frame.retry_count)
               ELSE api_return(
                      s1, Err(<<"Failed to get SKU information after ", "{}", " attempts">>,
                              <<to_string(max_retries)>>))
      ELSE api_return(s, r)

get_sku_information_with_retry_begin(s, product_edition_id, session_id) ==
  try_get_sku_information_send(
    [s EXCEPT !.frame = [NoFrame EXCEPT !.op = "get_sku_information_with_retry",
                                        !.product_edition_id = product_edition_id,
                                        !.session_id = session_id],
              !.log = <<Ev("begin", <<>>, 0, "get_sku_information_with_retry", <<>>)>>],
    product_edition_id, session_id, 0)

(***************************************************************************)
(* The public IsoApi calls, as the commands make them.                     *)
(***************************************************************************)
enter(s, op, v, r, e, l, a) ==
  [s EXCEPT !.frame = [NoFrame EXCEPT !.op = op, !.version_name = v,
                                      !.release_name = r, !.edition_name = e,
                                      !.language_name = l, !.architecture_name = a],
            !.log = <<Ev("begin", <<>>, 0, op, <<>>)>>]

call_get_languages(s, v, r, e) ==
  goto(enter(s, "get_languages", v, r, e, <<>>, <<>>), "get_languages")

call_get_architectures(s, v, r, e, l) ==
  goto(enter(s, "get_architectures", v, r, e, l, <<>>), "get_architectures")

call_get_download_url(s, v, r, e, l, a) ==
  goto(enter(s, "get_download_url", v, r, e, l, a), "get_architectures")

(***************************************************************************)
(* main.rs: handle_list_command and handle_download_command.               *)
(***************************************************************************)
println(s, line) == [s EXCEPT !.out.lines = Append(@, line)]

\* The command returns result to run().
finish(s, result) == [s EXCEPT !.pc = "done", !.out.result = Some(result)]

RECURSIVE print_names(_, _)
print_names(s, names) ==
  IF names = <<>> THEN s
  ELSE print_names(println(s, <<" ", " ", "-", " ">> \o names[1]), Tail(names))

handle_list_command_begin(s, c) ==
  CASE c.kind = "list_versions" -> api_return(s, get_available_versions)
    [] c.kind = "list_releases" -> api_return(s, get_releases(unwrap(c.version)))
    [] c.kind = "list_editions" ->
         api_return(s, get_editions(unwrap(c.version), unwrap(c.release)))
    [] c.kind = "list_languages" ->
         call_get_languages(s, unwrap(c.version), unwrap(c.release), unwrap(c.edition))
    [] OTHER ->
         call_get_architectures(s, unwrap(c.version), unwrap(c.release),
                                unwrap(c.edition), unwrap(c.language))

\* handle_list_command after the IsoApi call has returned.
handle_list_command_return(s) ==
  IF ~s.ret.ok THEN finish(s, s.ret)
  ELSE finish(
         print_names(
           println(s, <<"Available:">>),
           [i \in 1..Len(s.ret.val) |->
              IF s.cmd.kind = "list_languages"
              THEN s.ret.val[i].display_name \o <<" ", "(">> \o s.ret.val[i].name \o <<")">>
              ELSE s.ret.val[i].name]),
         Ok(<<>>))

\* handle_download_command from `let download_url = ...` on.
download_url_stage(s) ==
  call_get_download_url(
    println([s EXCEPT !.stage.at = "url"],
            <<"Selected: ">> \o s.stage.version \o <<" ">> \o s.stage.release \o <<" ">>
            \o s.stage.edition \o <<" ">> \o s.stage.language \o <<" ">>
            \o s.stage.architecture),
    s.stage.version, s.stage.release, s.stage.edition, s.stage.language,
    s.stage.architecture)

\* ... from `let architecture = ...` on.
download_architecture_stage(s) ==
  IF is_some(s.cmd.architecture)
  THEN goto([s EXCEPT !.stage.architecture = unwrap(s.cmd.architecture)], "url")
  ELSE call_get_architectures([s EXCEPT !.stage.at = "architecture"],
                              s.stage.version, s.stage.release, s.stage.edition,
                              s.stage.language)

\* ... from `let language = ...` on.
download_language_stage(s) ==
  IF is_some(s.cmd.language)
  THEN goto([s EXCEPT !.stage.language = unwrap(s.cmd.language)], "architecture")
  ELSE call_get_languages([s EXCEPT !.stage.at = "language"],
                          s.stage.version, s.stage.release, s.stage.edition)

\* ... from `let edition = ...` on.
download_edition_stage(s) ==
  IF is_some(s.cmd.edition)
  THEN goto([s EXCEPT !.stage.edition = unwrap(s.cmd.edition)], "language")
  ELSE pass(s, "first_edition", get_editions(s.stage.version, s.stage.release))

\* A default that is the last edition listed.
download_last_edition(s, editions) ==
  IF ~editions.ok THEN finish(s, editions)
  ELSE IF editions.val = <<>> THEN finish(s, Err(<<"No editions found">>, <<>>))
  ELSE goto([s EXCEPT !.stage.edition = editions.val[Len(editions.val)].name], "language")

\* editions.first().context("No editions found")?.name.clone()
download_first_edition(s, editions) ==
  IF ~editions.ok THEN finish(s, editions)
  ELSE IF editions.val = <<>> THEN finish(s, Err(<<"No editions found">>, <<>>))
  ELSE goto([s EXCEPT !.stage.edition = editions.val[1].name], "language")

\* releases.first().context("No releases found")?.name.clone()
download_first_release(s, releases) ==
  IF ~releases.ok THEN finish(s, releases)
  ELSE IF releases.val = <<>> THEN finish(s, Err(<<"No releases found">>, <<>>))
  ELSE goto([s EXCEPT !.stage.release = releases.val[1].name], "edition")

\* ... from `let release = ...` on.
download_release_stage(s) ==
  IF is_some(s.cmd.release)
  THEN goto([s EXCEPT !.stage.release = unwrap(s.cmd.release)], "edition")
  ELSE pass(s, "first_release", get_releases(s.stage.version))

handle_download_command_begin(s) ==
  goto([s EXCEPT !.stage.version =
                    IF is_some(s.cmd.version) THEN unwrap(s.cmd.version)
                    ELSE <<"W","i","n","d","o","w","s"," ","1","1">>],
       "release")

\* The language picked when --language is absent.
default_language(languages, locale) ==
  LET a == first({i \in 1..Len(languages) : starts_with(languages[i].name, locale)})
      b == first({i \in 1..Len(languages) : starts_with(languages[i].name, <<"e","n">>)})
  IN  IF a # 0 THEN a ELSE IF b # 0 THEN b ELSE IF languages # <<>> THEN 1 ELSE 0

\* The architecture picked when --architecture is absent.
default_architecture(archs, arch) ==
  LET a == first({i \in 1..Len(archs) : archs[i].name = arch})
  IN  IF a # 0 THEN a ELSE IF archs # <<>> THEN 1 ELSE 0

\* A command that hands every resolved URL to the downloader.
handle_download_command_return_always_downloading(s) ==
  IF ~s.ret.ok THEN finish(s, s.ret)
  ELSE CASE s.stage.at = "language" ->
              LET l == default_language(s.ret.val, s.system_locale)
              IN  IF l = 0 THEN finish(s, Err(<<"No languages found">>, <<>>))
                  ELSE goto([s EXCEPT !.stage.language = s.ret.val[l].name],
                            "architecture")
         [] s.stage.at = "architecture" ->
              LET a == default_architecture(s.ret.val, s.system_arch)
              IN  IF a = 0 THEN finish(s, Err(<<"No architectures found">>, <<>>))
                  ELSE goto([s EXCEPT !.stage.architecture = s.ret.val[a].name], "url")
         [] OTHER -> [s EXCEPT !.pc = "download", !.out.download = Some(s.ret.val)]

\* handle_download_command after an IsoApi call has returned.
handle_download_command_return(s) ==
  IF ~s.ret.ok THEN finish(s, s.ret)
  ELSE CASE s.stage.at = "language" ->
              LET l == default_language(s.ret.val, s.system_locale)
              IN  IF l = 0 THEN finish(s, Err(<<"No languages found">>, <<>>))
                  ELSE goto([s EXCEPT !.stage.language = s.ret.val[l].name],
                            "architecture")
         [] s.stage.at = "architecture" ->
              LET a == default_architecture(s.ret.val, s.system_arch)
              IN  IF a = 0 THEN finish(s, Err(<<"No architectures found">>, <<>>))
                  ELSE goto([s EXCEPT !.stage.architecture = s.ret.val[a].name], "url")
         [] OTHER ->
              IF s.cmd.get_url
              THEN finish(println(s, s.ret.val), Ok(<<>>))
              ELSE [s EXCEPT !.pc = "download", !.out.download = Some(s.ret.val)]

\* An IsoApi call returns to the command that made it.
command_return(s) ==
  IF s.cmd.kind = "download"
  THEN handle_download_command_return(s)
  ELSE handle_list_command_return(s)

\* The places the program waits at: for a response, for the command line, for the
\* downloader, or at its end.
Waiting == {"probe", "ready", "whitelist", "sku", "links", "page", "xml", "download", "done"}

\* The code that runs at the place s.pc names.
resume(s) ==
  CASE s.pc = "ret" -> command_return(s)
    [] s.pc = "release" -> download_release_stage(s)
    [] s.pc = "first_release" -> download_first_release(s, s.ret)
    [] s.pc = "edition" -> download_edition_stage(s)
    [] s.pc = "first_edition" -> download_first_edition(s, s.ret)
    [] s.pc = "language" -> download_language_stage(s)
    [] s.pc = "architecture" -> download_architecture_stage(s)
    [] s.pc = "url" -> download_url_stage(s)
    [] s.pc = "get_languages" -> get_languages_begin(s)
    [] s.pc = "editions" -> get_languages_editions(s, s.ret)
    [] s.pc = "languages_branch" -> languages_branch(s)
    [] s.pc = "get_languages_return" -> get_languages_return(s, s.ret)
    [] s.pc = "get_architectures" -> get_architectures_begin(s)
    [] s.pc = "links_entry" -> links_entry(s)
    [] s.pc = "get_architectures_return" -> get_architectures_return(s, s.ret)

\* The program runs on until it waits.
RECURSIVE drive(_)
drive(s) == IF s.pc \in Waiting THEN s ELSE drive(resume(s))

(***************************************************************************)
(* The environment: the hosts the program runs on, the command lines it is *)
(* given, and the responses the network gives.                             *)
(***************************************************************************)
EnUS == <<"e","n","-","U","S">>

FrFR == <<"f","r","-","F","R">>

Hosts ==
  {[locale |-> EnUS, arch |-> <<"x","6","4">>],
   [locale |-> FrFR, arch |-> <<"A","R","M","6","4">>]}

\* An HTTP exchange: whether send() returned a response, whether text() could read
\* its body, the status, the body, and the document the body parses to (if any).
Resp(sent, readable, status, text, json) ==
  [sent |-> sent, readable |-> readable, status |-> status, text |-> text, json |-> json]

TransportError == Resp(FALSE, FALSE, 0, <<>>, None)

UnreadableBody == Resp(TRUE, FALSE, 200, <<>>, None)

StatusOnly(status) == Resp(TRUE, TRUE, status, <<>>, None)

ProbeResponses == {TransportError, StatusOnly(200), StatusOnly(404)}

WhitelistResponses == {TransportError, StatusOnly(200), StatusOnly(500)}

ApiResponse(skus, options, errors, container) ==
  [skus |-> skus, product_download_options |-> options, errors |-> errors,
   validation_container |-> container]

Sku(id, language, localized_language) ==
  [id |-> id, language |-> language, localized_language |-> localized_language]

English == <<"E","n","g","l","i","s","h">>

EnglishInternational ==
  <<"E","n","g","l","i","s","h"," ","I","n","t","e","r","n","a","t","i","o","n","a","l">>

SkuLists ==
  {None,
   Some(<<>>),
   Some(<<Sku(<<"7">>, English, English)>>),
   Some(<<Sku(<<"8">>, EnglishInternational, EnglishInternational),
          Sku(<<"7">>, English, English)>>),
   Some(<<Sku(<<"7">>, English, English), Sku(<<"9">>, English, English)>>)}

BanError == [error_type |-> BanSentinel, value |-> <<"B","a","n","n","e","d">>]

OtherError == [error_type |-> 1, value |-> <<"S","o","r","r","y">>]

InvalidField == <<"I","n","v","a","l","i","d">>

\* The (Errors, ValidationContainer) pairs of a document that reports an error ...
ErrorShapes ==
  {<<Some(<<BanError>>), None>>,
   <<Some(<<OtherError>>), None>>,
   <<Some(<<OtherError, BanError>>), Some([errors |-> <<>>])>>,
   <<None, Some([errors |-> <<InvalidField>>])>>,
   <<Some(<<BanError>>), Some([errors |-> <<InvalidField>>])>>,
   <<Some(<<OtherError>>), Some([errors |-> <<InvalidField>>])>>}

\* ... and of one that reports none.
CleanShapes == {<<None, None>>, <<Some(<<>>), Some([errors |-> <<>>])>>}

Document(a) == Resp(TRUE, TRUE, 200, <<"{", "}">>, Some(a))

BrokenBodies ==
  {TransportError, UnreadableBody, StatusOnly(200), Resp(TRUE, TRUE, 403, <<" ", "\n">>, None),
   Resp(TRUE, TRUE, 200, <<"<", "h", "t", "m", "l", ">">>, None)}

SkuResponses ==
  BrokenBodies \cup
  {Document(ApiResponse(None, None, x[1], x[2])) : x \in ErrorShapes} \cup
  {Document(ApiResponse(k, None, x[1], x[2])) : k \in SkuLists, x \in CleanShapes}

Option(uri, download_type) == [uri |-> uri, download_type |-> download_type]

IsoX64 == <<"https://example/win11.iso">>

OptionLists ==
  {None,
   Some(<<>>),
   Some(<<Option(IsoX64, 1)>>),
   Some(<<Option(<<"https://example/win11_x86.iso">>, 0), Option(<<"https://example/win11_arm64.iso">>, 2),
          Option(<<"https://example/win11_arm64.iso">>, 99), Option(<<"https://example/win11_x64_2.iso">>, 1)>>)}

LinksResponses ==
  BrokenBodies \cup
  {Document(ApiResponse(None, None, x[1], x[2])) : x \in ErrorShapes} \cup
  {Document(ApiResponse(None, o, x[1], x[2])) : o \in OptionLists, x \in CleanShapes}

Page(text) == Resp(TRUE, TRUE, 200, text, None)

PageResponses ==
  {TransportError, UnreadableBody,
   Page(<<"<", "h", "t", "m", "l", ">">>),
   Page(<<"x", MsgOpen, "&lt;", "p", "&gt;", "N", "o", " ", "\n", " ">> \o BanCode
        \o <<"&lt;", "/", "p", "&gt;", " ", MsgClose, "y">>),
   Page(<<MsgOpen, "s", "o", "r", "r", "y", MsgClose>>),
   Page(<<MsgOpen, "715-", "&lt;", "b", "&gt;", "123130", "&lt;", "/", "b", "&gt;", MsgClose>>),
   Page(<<MsgOpen, "&lt;", "a", " ">> \o BanCode \o <<"&gt;", "g", "o", MsgClose>>),
   Page(<<"\n", MsgOpen>> \o BanCode \o <<"\n", MsgClose>>),
   Page(<<MsgOpen>> \o BanCode)}

XmlResponses ==
  {TransportError, UnreadableBody, StatusOnly(404), StatusOnly(200),
   Resp(TRUE, TRUE, 200, <<"<arch>", "x", "6", "4", "</arch>">>, None),
   Resp(TRUE, TRUE, 200, <<"<", "<arch>", "x", "6", "4", "</arch>", "\n", "<arch>",
                           "a", "a", "6", "4", "</arch>">>, None),
   Resp(TRUE, TRUE, 200, <<"<arch>", "</arch>", "<arch>", "x", "<", "</arch>">>, None),
   Resp(TRUE, TRUE, 404, <<"<arch>", "x", "6", "4", "</arch>">>, None)}

\* Every permutation of the insertion positions of a language map.
Orders ==
  LET names == UNION {{unwrap(k)[i].language : i \in 1..Len(unwrap(k))} :
                        k \in SkuLists \ {None}}
      n == Cardinality(names)
  IN  {o \in [1..n -> 1..n] : \A i, j \in 1..n : o[i] = o[j] => i = j}

\* A command line.  The fields a command does not take are None.
Cmd(kind, version, release, edition, language, architecture, get_url) ==
  [kind |-> kind, version |-> version, release |-> release, edition |-> edition,
   language |-> language, architecture |-> architecture, get_url |-> get_url]

Windows11 == <<"W","i","n","d","o","w","s"," ","1","1">>

Windows10Lower == <<"w","i","n","d","o","w","s"," ","1","0">>

UefiShell22 == <<"U","E","F","I"," ","S","h","e","l","l"," ","2",".","2">>

Release25H1 ==
  <<"2","5","H","1"," ","(","e","d","k","2","-","s","t","a","b","l","e","2","0","2","5","0","5",")">>

R24H2 == <<"2","4","H","2">>

R22h2 == <<"2","2","h","2">>

\* Selection strings tried against the catalog: empty, matching several entries,
\* one entry, or none, in either case.
Fragments ==
  {<<>>, <<"W","I","N","D","O","W","S">>, <<"0">>, <<"s","h","e","l","l"," ","2">>,
   <<"h","2">>, <<"C","h","i","n","a">>, <<"d","e","b","u","g">>, <<"P","r","o">>,
   <<"2",".","0">>, <<"z","z">>}

\* The command lines tried: list commands, download commands with and without
\* their options, and `list releases`, `list editions` and `list languages` over
\* selection strings that match several catalog entries, one, or none.
Commands ==
  {Cmd("list_versions", None, None, None, None, None, FALSE),
   Cmd("list_releases", Some(Windows11), None, None, None, None, FALSE),
   Cmd("list_releases", Some(<<"S","o","l","a","r","i","s">>), None, None, None, None, FALSE),
   Cmd("list_editions", Some(Windows10Lower), Some(R22h2), None, None, None, FALSE),
   Cmd("list_editions", Some(Windows11), Some(<<"9">>), None, None, None, FALSE),
   Cmd("list_languages", Some(Windows11), Some(R24H2), Some(<<"H","o","m","e","/","P","r","o">>), None, None, FALSE),
   Cmd("list_languages", Some(Windows10Lower), Some(R22h2), Some(<<"c","h","i","n","a">>), None, None, FALSE),
   Cmd("list_languages", Some(UefiShell22), Some(Release25H1),
       Some(<<"R","e","l","e","a","s","e">>), None, None, FALSE),
   Cmd("list_languages", Some(Windows11), Some(R24H2), Some(<<"S","e","r","v","e","r">>),
       None, None, FALSE),
   Cmd("list_architectures", Some(Windows11), Some(R24H2), Some(<<"H","o","m","e","/","P","r","o">>),
       Some(<<"e","n","g","l","i","s","h">>), None, FALSE),
   Cmd("list_architectures", Some(Windows10Lower), Some(R22h2), Some(<<"c","h","i","n","a">>),
       Some(<<"G","e","r","m","a","n">>), None, FALSE),
   Cmd("list_architectures", Some(<<"E","F","I"," ","s","h","e","l","l"," ","u","E","f","I">>),
       Some(<<"2","5","H","1">>), Some(<<"d","e","b","u","g">>), Some(<<"x">>), None, FALSE),
   Cmd("download", None, None, None, None, None, TRUE),
   Cmd("download", Some(UefiShell22), Some(Release25H1), Some(<<"R","e","l","e","a","s","e">>),
       None, None, TRUE),
   Cmd("download", Some(Windows11), None, None, Some(English), Some(<<"x","6","4">>), FALSE),
   Cmd("download", Some(Windows10Lower), None, None, None, Some(<<"A","R","M","6","4">>), FALSE),
   Cmd("download", Some(Windows10Lower), None, None, Some(English), Some(<<"X","6","4">>),
       TRUE),
   Cmd("download", Some(UefiShell22), None, Some(<<"D","e","b","u","g">>), None,
       Some(<<"x","6","4">>), TRUE)}
  \cup {Cmd("list_releases", Some(v), None, None, None, None, FALSE) : v \in Fragments}
  \cup {Cmd("list_editions", Some(v), Some(r), None, None, None, FALSE) :
          v \in Fragments, r \in Fragments}
  \cup {Cmd("list_languages", Some(Windows10Lower), Some(<<>>), Some(e), None, None, FALSE) :
          e \in Fragments}

(***************************************************************************)
(* The state machine.                                                      *)
(***************************************************************************)
NoCmd == Cmd("", None, None, None, None, None, FALSE)

NoStage ==
  [at |-> "", version |-> <<>>, release |-> <<>>, edition |-> <<>>, language |-> <<>>,
   architecture |-> <<>>]

NoOut == [lines |-> <<>>, result |-> None, download |-> None]

\* IsoApi::new up to the locale probe: the fields of the struct literal, and the
\* request of check_locale in flight.
Init ==
  /\ \E h \in Hosts : system_locale = h.locale /\ system_arch = h.arch
  /\ query_locale = EnUS
  /\ session_ids = [i \in {} |-> <<>>]
  /\ uuid_count = 1
  /\ pc = "probe"
  /\ frame = NoFrame
  /\ ret = Ok(<<>>)
  /\ cmd = NoCmd
  /\ stage = NoStage
  /\ out = NoOut
  /\ log = <<Ev("probe", <<>>, 0, <<>>, system_locale)>>
  /\ received = [what |-> "", resp |-> TransportError]

\* A response arrives.
Receive(s, what, resp) == [s EXCEPT !.received = [what |-> what, resp |-> resp]]

\* A probe that takes any response for a success.
check_locale_any_status(resp) == resp.sent

\* check_locale: whether the probe came back with a success status.
check_locale(resp) == resp.sent /\ is_success(resp.status)

\* check_and_set_locale after the probe.
check_and_set_locale(s, resp) ==
  [s EXCEPT !.query_locale = IF check_locale(resp) THEN s.system_locale ELSE EnUS,
            !.pc = "ready"]

LocaleProbeResponse ==
  /\ pc = "probe"
  /\ \E resp \in ProbeResponses : Step(check_and_set_locale(Receive(St, "probe", resp), resp))

\* run(): the command is dispatched.
run(s, c) ==
  LET s1 == [s EXCEPT !.cmd = c, !.stage = NoStage, !.out = NoOut, !.frame = NoFrame,
                      !.log = <<>>]
  IN  IF c.kind = "download"
      THEN handle_download_command_begin(s1)
      ELSE handle_list_command_begin(s1, c)

RunCommand ==
  /\ pc = "ready"
  /\ \E c \in Commands : Step(drive(run(St, c)))

WhitelistResponse ==
  /\ pc = "whitelist"
  /\ \E resp \in WhitelistResponses : Step(drive(whitelist_session_recv(Receive(St, "whitelist", resp), resp)))

SkuResponse ==
  /\ pc = "sku"
  /\ frame.op # "get_sku_information_with_retry"
  /\ \E resp \in SkuResponses, ord \in Orders :
       Step(drive(languages_sku_recv(Receive(St, "sku", resp), resp, ord)))

LinksResponse ==
  /\ pc = "links"
  /\ \E resp \in LinksResponses : Step(drive(get_download_links_recv(Receive(St, "links", resp), resp)))

PageResponse ==
  /\ pc = "page"
  /\ \E resp \in PageResponses :
       Step(drive(get_code_715_123130_message_recv(Receive(St, "page", resp), resp)))

XmlResponse ==
  /\ pc = "xml"
  /\ \E resp \in XmlResponses :
       Step(drive(get_uefi_shell_architectures_recv(Receive(St, "xml", resp), resp)))

Next ==
  \/ LocaleProbeResponse
  \/ RunCommand
  \/ WhitelistResponse
  \/ SkuResponse
  \/ LinksResponse
  \/ PageResponse
  \/ XmlResponse

Spec == Init /\ [][Next]_vars

(***************************************************************************)
(* The retry controller on its own: an IsoApi object whose                 *)
(* get_sku_information_with_retry is called once.                          *)
(***************************************************************************)
RetryCall ==
  /\ pc = "ready"
  /\ \E product_edition_id \in {3113, 2618} :
       Step(get_sku_information_with_retry_begin(
                St, product_edition_id, uuid_to_string(uuid_count)))

RetrySkuResponse ==
  /\ pc = "sku"
  /\ frame.op = "get_sku_information_with_retry"
  /\ \E resp \in SkuResponses :
       Step(get_sku_information_with_retry_recv(Receive(St, "sku", resp), resp))

NextRetry ==
  \/ LocaleProbeResponse
  \/ RetryCall
  \/ RetrySkuResponse

SpecRetry == Init /\ [][NextRetry]_vars

(***************************************************************************)
(* get_arch_from_type on its own: applied to the type code of one download *)
(* option.                                                                 *)
(***************************************************************************)
\* The type codes tried, of the u32 range.
MaxDownloadType == 150

InitArch ==
  /\ \E h \in Hosts : system_locale = h.locale /\ system_arch = h.arch
  /\ query_locale = EnUS
  /\ session_ids = [i \in {} |-> <<>>]
  /\ uuid_count = 1
  /\ pc = "option"
  /\ frame = NoFrame
  /\ ret = Ok(<<>>)
  /\ cmd = NoCmd
  /\ stage = NoStage
  /\ out = NoOut
  /\ log = <<>>
  /\ \E arch_type \in 0..MaxDownloadType :
       received = [what |-> "option", resp |-> Option(IsoX64, arch_type)]

\* let arch_name = utils::get_arch_from_type(option.download_type);
ArchFromType ==
  /\ pc = "option"
  /\ Step([St EXCEPT !.pc = "done",
                     !.ret = Ok(get_arch_from_type(received.resp.download_type))])

SpecArch == InitArch /\ [][ArchFromType]_vars


(***************************************************************************)
(* Downloader::download on its own: called with a resolved URL, the HEAD   *)
(* request in flight.  out.file is the file at the output path, None while *)
(* there is none; the log holds the requests made, the chunks that arrived *)
(* and the positions given to the progress bar.                            *)
(***************************************************************************)
\* The chunks a response stream yields before the streams tried end.
MaxChunks == 3

\* ct_len.parse::<u64>().ok(): decimal digits, after an optional plus sign.
parse_u64(ct_len) ==
  LET digits == IF ct_len # <<>> /\ ct_len[1] = "+" THEN Tail(ct_len) ELSE ct_len
      value[i \in 0..Len(digits)] ==
        IF i = 0 THEN 0
        ELSE value[i - 1] * 10 + (CHOOSE d \in 0..9 : to_string(d) = <<digits[i]>>)
  IN  IF digits = <<>> \/ \E i \in DOMAIN digits : \A d \in 0..9 : to_string(d) # <<digits[i]>>
      THEN None
      ELSE Some(value[Len(digits)])

InitDownload ==
  /\ \E h \in Hosts : system_locale = h.locale /\ system_arch = h.arch
  /\ query_locale = EnUS
  /\ session_ids = [i \in {} |-> <<>>]
  /\ uuid_count = 1
  /\ pc = "head"
  /\ frame = [op |-> "download", url |-> IsoX64, content_length |-> None,
              progress_bar |-> None, downloaded |-> 0]
  /\ ret = Ok(<<>>)
  /\ cmd = NoCmd
  /\ stage = NoStage
  /\ \E file \in {None, Some(<<"o","l","d">>)} :
       out = [lines |-> <<>>, result |-> None, download |-> Some(IsoX64), file |-> file]
  /\ log = <<Ev("head", <<>>, 0, IsoX64, <<>>)>>
  /\ received = [what |-> "", resp |-> TransportError]

\* A download that creates the output file before it looks at the response.
download_get_recv_creating_first(s, resp, created) ==
  IF ~resp.sent
  THEN [s EXCEPT !.pc = "ret", !.ret = Err(<<"Failed to start download">>, <<>>),
                 !.out.file = Some(<<>>)]
  ELSE IF ~is_success(resp.status)
  THEN [s EXCEPT !.pc = "ret",
                 !.ret = Err(<<"Download failed with status: ", "{}">>,
                             <<status_display(resp.status)>>),
                 !.out.file = Some(<<>>)]
  ELSE [s EXCEPT !.pc = "chunk",
                 !.frame.progress_bar =
                    IF is_some(s.frame.content_length)
                    THEN Some([length |-> unwrap(s.frame.content_length), position |-> 0])
                    ELSE None,
                 !.out.file = Some(<<>>)]

\* After the HEAD response: `?`, the content-length header, and the GET request.
download_head_recv(s, resp) ==
  IF ~resp.sent
  THEN [s EXCEPT !.pc = "ret", !.ret = Err(<<"Failed to get file information">>, <<>>)]
  ELSE [log_ev(s, Ev("get", <<>>, 0, s.frame.url, <<>>)) EXCEPT
          !.pc = "get",
          !.frame.content_length =
             IF is_some(resp.content_length) THEN parse_u64(unwrap(resp.content_length))
             ELSE None]

\* After the GET response: `?`, the status, the progress bar and File::create, which
\* creates or truncates the file when created and leaves it alone otherwise.
download_get_recv(s, resp, created) ==
  IF ~resp.sent
  THEN [s EXCEPT !.pc = "ret", !.ret = Err(<<"Failed to start download">>, <<>>)]
  ELSE IF ~is_success(resp.status)
  THEN [s EXCEPT !.pc = "ret",
                 !.ret = Err(<<"Download failed with status: ", "{}">>,
                             <<status_display(resp.status)>>)]
  ELSE IF ~created
  THEN [s EXCEPT !.pc = "ret",
                 !.ret = Err(<<"Failed to create output file: ", "{}">>, <<"output_path">>)]
  ELSE [s EXCEPT !.pc = "chunk",
                 !.frame.progress_bar =
                    IF is_some(s.frame.content_length)
                    THEN Some([length |-> unwrap(s.frame.content_length), position |-> 0])
                    ELSE None,
                 !.out.file = Some(<<>>)]

\* One turn of `while let Some(chunk) = stream.next().await`, or the flush after
\* it.  item is what the stream yields; write_all puts the first written bytes of
\* the chunk into the file and fails unless they are all of it; flushed is whether
\* the flush went well.
download_stream_next(s, item, written, flushed) ==
  IF ~is_some(item)
  THEN IF flushed THEN [s EXCEPT !.pc = "ret", !.ret = Ok(<<>>)]
       ELSE [s EXCEPT !.pc = "ret", !.ret = Err(<<"Failed to flush file">>, <<>>)]
  ELSE IF ~unwrap(item).ok
  THEN [s EXCEPT !.pc = "ret",
                 !.ret = Err(<<"Failed to read chunk from response">>, <<>>)]
  ELSE LET chunk == unwrap(item).val
       IN  IF written < Len(chunk)
           THEN [s EXCEPT !.pc = "ret",
                          !.ret = Err(<<"Failed to write chunk to file">>, <<>>),
                          !.out.file = Some(unwrap(@) \o SubSeq(chunk, 1, written))]
           ELSE LET downloaded == s.frame.downloaded + Len(chunk)
                    s1 == [log_ev(s, Ev("chunk", <<>>, 0, chunk, <<>>)) EXCEPT
                             !.out.file = Some(unwrap(@) \o chunk),
                             !.frame.downloaded = downloaded]
                IN  IF is_some(s.frame.progress_bar)
                    THEN [log_ev(s1, Ev("position", <<>>, 0, downloaded, <<>>)) EXCEPT
                            !.frame.progress_bar =
                               Some([unwrap(@) EXCEPT !.position = downloaded])]
                    ELSE s1

NextDownload ==
  \/ /\ pc = "head"
     /\ \E sent \in BOOLEAN, status \in {200, 404},
           content_length \in {None, Some(<<"5">>), Some(<<"+","1","2">>), Some(<<"1","k">>)} :
          LET resp == [sent |-> sent, status |-> status, content_length |-> content_length]
          IN  Step(download_head_recv(Receive(St, "head", resp), resp))
  \/ /\ pc = "get"
     /\ \E resp \in {TransportError, StatusOnly(200), StatusOnly(404)}, created \in BOOLEAN :
          Step(download_get_recv(Receive(St, "get", resp), resp, created))
  \/ /\ pc = "chunk"
     /\ \E item \in {None, Some(Err(<<"error decoding response body">>, <<>>)),
                     Some(Ok(<<"a">>)), Some(Ok(<<"b","c">>)), Some(Ok(<<>>))},
           written \in 0..2, flushed \in BOOLEAN :
          /\ is_some(item) /\ unwrap(item).ok =>
               /\ written <= Len(unwrap(item).val)
               /\ Cardinality({k \in DOMAIN log : log[k].e = "chunk"}) < MaxChunks
          /\ Step(download_stream_next(Receive(St, "chunk", item), item, written, flushed))

SpecDownload == InitDownload /\ [][NextDownload]_vars

(***************************************************************************)
(* Properties.  The log holds the requests of the IsoApi call in flight,   *)
(* or of the last one when the command has ended.                          *)
(***************************************************************************)
\* The positions of the logged events of kind e.
events(e) == {k \in DOMAIN log : log[k].e = e}

\* C1: within one get_architectures / get_download_url invocation, every
\* download-links request presents the session id that the SKU-information request
\* of the same branch presented, and requests of different branches present
\* different session ids.
C1_SessionsBranchScoped ==
  /\ \A j \in events("links") :
       /\ \E i \in events("sku") : i < j /\ log[i].idx = log[j].idx
       /\ \A i \in events("sku") : log[i].idx = log[j].idx => log[i].sid = log[j].sid
  /\ \A i, j \in events("sku") \cup events("links") :
       log[i].idx # log[j].idx => log[i].sid # log[j].sid

\* Download-links requests have gone out for two branches of one edition.
C1_Witness ==
  \E i, j \in events("links") : log[i].idx = 0 /\ log[j].idx = 1

\* The session id of branch i has been whitelisted: its whitelist request has been
\* answered.
Whitelisted(i) ==
  \E k \in events("whitelist") :
    /\ log[k].sid = session_ids[i]
    /\ k < Len(log)
    /\ log[k + 1].e = "ok"

\* C2: once the session id registered for a branch has been whitelisted, the
\* registry entry of that branch is never replaced, and no further session is
\* created for it.
C2_SessionNeverReplaced ==
  [][\A i \in DOMAIN session_ids :
       Whitelisted(i) => session_ids'[i] = session_ids[i]]_vars

\* The version string the command works on.
SelectedVersion ==
  IF cmd.kind = "download" THEN stage.version
  ELSE IF is_some(cmd.version) THEN unwrap(cmd.version) ELSE <<>>

SelectedRelease ==
  IF cmd.kind = "download" THEN stage.release
  ELSE IF is_some(cmd.release) THEN unwrap(cmd.release) ELSE <<>>

IsFirmware == contains(to_lowercase(SelectedVersion), <<"u","e","f","i">>)

\* t is the first space-separated token of text.
IsFirstToken(t, text) ==
  /\ Len(t) <= Len(text)
  /\ t = SubSeq(text, 1, Len(t))
  /\ \A k \in 1..Len(t) : t[k] # " "
  /\ Len(t) < Len(text) => text[Len(t) + 1] = " "

\* t is the last space-separated token of text.
IsLastToken(t, text) ==
  /\ Len(t) <= Len(text)
  /\ t = SubSeq(text, Len(text) - Len(t) + 1, Len(text))
  /\ \A k \in 1..Len(t) : t[k] # " "
  /\ Len(t) < Len(text) => text[Len(text) - Len(t)] = " "

\* url is the fixed template with the release tag and the shell version filled in.
FromTemplate(url, version_name, release_name) ==
  \E n \in 0..Len(release_name), m \in 0..Len(version_name) :
    LET tag == SubSeq(release_name, 1, n)
        shell_version == SubSeq(version_name, Len(version_name) - m + 1, Len(version_name))
    IN  /\ IsFirstToken(tag, release_name)
        /\ IsLastToken(shell_version, version_name)
        /\ \E suffix \in {"-RELEASE.iso", "-DEBUG.iso"} :
             url = <<"https://github.com/pbatard/UEFI-Shell/releases/download/">> \o tag
                   \o <<"/UEFI-Shell-">> \o shell_version \o <<"-">> \o tag \o <<suffix>>

\* C3: for a version string that contains "uefi" in any case, no whitelist,
\* SKU-information or download-links request is made and no session is created,
\* and the URL is the fixed template with the first token of the release and the
\* last token of the version filled in.
C3_FirmwareFork ==
  IsFirmware =>
    /\ events("whitelist") \cup events("sku") \cup events("links") \cup events("page") = {}
    /\ uuid_count = 1
    /\ DOMAIN session_ids = {}
    /\ pc = "xml" => FromTemplate(frame.link, SelectedVersion, SelectedRelease)
    /\ (cmd.kind = "download" /\ pc = "done" /\ unwrap(out.result).ok) =>
         FromTemplate(out.lines[Len(out.lines)], SelectedVersion, SelectedRelease)

\* A firmware download has printed its URL.
C3_Witness ==
  /\ IsFirmware
  /\ cmd.kind = "download"
  /\ pc = "done"
  /\ unwrap(out.result).ok
  /\ received.what = "xml"

\* The last logged event of kind e.
LastOf(e) == log[CHOOSE k \in events(e) : \A j \in events(e) : j <= k]

\* The document of a response carries no validation error.
NoValidationErrors(resp) ==
  \/ resp.json[1].validation_container = <<>>
  \/ resp.json[1].validation_container[1].errors = <<>>

\* The document of a response has a non-empty legacy error list.
HasLegacyError(resp) ==
  /\ resp.sent
  /\ resp.readable
  /\ resp.json # <<>>
  /\ resp.json[1].errors # <<>>
  /\ resp.json[1].errors[1] # <<>>

\* ... whose first entry has the ban sentinel type, the validation container empty.
BanShaped(resp) ==
  /\ HasLegacyError(resp)
  /\ NoValidationErrors(resp)
  /\ resp.json[1].errors[1][1].error_type = 9

\* ... whose first entry has another type.
OtherShaped(resp) ==
  /\ HasLegacyError(resp)
  /\ resp.json[1].errors[1][1].error_type # 9

\* C4: a download-links response with an empty validation container and a first
\* legacy error of type 9 makes get_download_links fetch the ban message and
\* return an error whose message contains the session id presented on that call.
C4_BanCarriesSession ==
  /\ (received.what = "links" /\ BanShaped(received.resp)) => pc = "page"
  /\ pc = "page" => received.what = "links" /\ BanShaped(received.resp)
  /\ received.what = "page" =>
       /\ pc = "done"
       /\ out.result = <<ret>>
       /\ ~ret.ok
       /\ contains(message(ret), <<" ">> \o LastOf("links").sid)
       /\ contains(message(ret), <<"715-", "123130">>)

\* The ban error has come back to the command.
C4_Witness ==
  /\ received.what = "page"
  /\ pc = "done"
  /\ Len(LastOf("links").sid) > 0

\* C5: a SKU-information response whose first legacy error has the ban sentinel
\* type yields the ban error (ban message and session id), not an API error.
C5_SkuBanIsBlocked ==
  (received.what = "sku" /\ BanShaped(received.resp)) =>
    \/ pc = "page"
    \/ /\ ~ret.ok
       /\ contains(message(ret), <<"715-", "123130">>)
       /\ contains(message(ret), LastOf("sku").sid)

\* The error a first legacy error of another type must give: "API error: " and the
\* value text of the entry, with no ban-message fetch.
IsApiErrorOf(resp) ==
  /\ pc = "done"
  /\ events("page") = {}
  /\ out.result = <<ret>>
  /\ ~ret.ok
  /\ message(ret) = <<"API error: ">> \o resp.json[1].errors[1][1].value

\* C6 as stated: on both endpoints, a first legacy error of a type other than 9
\* yields an API error with the entry's value text unchanged and no ban-message
\* fetch.
C6_AsStated ==
  (received.what \in {"sku", "links"} /\ OtherShaped(received.resp)) =>
    IsApiErrorOf(received.resp)

\* C6: on both endpoints, when the validation container is absent or empty, a first
\* legacy error of a type other than 9 yields an API error with the entry's value
\* text unchanged and no ban-message fetch.
C6_ApiErrorVerbatim ==
  (/\ received.what \in {"sku", "links"}
   /\ OtherShaped(received.resp)
   /\ NoValidationErrors(received.resp)) =>
    IsApiErrorOf(received.resp)

\* A download-links response with such an error has been handled.
C6_Witness ==
  /\ received.what = "links"
  /\ OtherShaped(received.resp)
  /\ NoValidationErrors(received.resp)
  /\ Len(received.resp.json[1].errors[1]) = 2

\* C7: the ban message is the fixed fallback text whenever the landing page could
\* not be fetched or read, has no marker, or has no reference code; it is extracted
\* text only when that text contains the reference code; so the ban error always
\* carries the reference code, and no other error comes of the resolution.
C7_BanMessageBestEffort ==
  received.what = "page" =>
    LET m      == ret.args[1]
        resp   == received.resp
        marker == \E k \in DOMAIN resp.text : resp.text[k] = MsgOpen
        code   == \E k \in DOMAIN resp.text : resp.text[k] = "715-"
    IN  /\ ~ret.ok
        /\ ret.fmt = <<"{}", " ", "{}">>
        /\ contains(m, <<"715-", "123130">>)
        /\ (~resp.sent \/ ~resp.readable \/ ~marker \/ ~code) => m = FallbackMessage
        /\ m # FallbackMessage =>
             /\ resp.sent /\ resp.readable /\ marker /\ code
             /\ Len(m) > 2
             /\ m[Len(m)] = " Session ID: "

\* The landing page had the marker but not the reference code.
C7_Witness ==
  /\ received.what = "page"
  /\ received.resp.sent
  /\ \E k \in DOMAIN received.resp.text : received.resp.text[k] = MsgOpen
  /\ \A k \in DOMAIN received.resp.text : received.resp.text[k] # "715-"
  /\ ret.args[1] = FallbackMessage

\* The sleeps of the log, in order, in milliseconds.
RECURSIVE sleeps(_)
sleeps(l) ==
  IF l = <<>> THEN <<>>
  ELSE IF l[1].e = "sleep" THEN <<l[1].arg[1]>> \o sleeps(Tail(l))
  ELSE sleeps(Tail(l))

\* C8: when the SKU call fails twice and then succeeds, the retry controller
\* returns the success after exactly three calls and exactly two sleeps, of 2 s
\* and then 4 s.
C8_RetryThenSuccess ==
  (Cardinality(events("err")) = 2 /\ Cardinality(events("ok")) = 1) =>
    /\ Cardinality(events("sku")) = 3
    /\ sleeps(log) = <<2000, 4000>>
    /\ pc = "ret"
    /\ ret = [ok |-> TRUE, val |-> received.resp.json[1]]

C8_Witness ==
  /\ frame.op = ""
  /\ pc = "ret"
  /\ ret.ok
  /\ Cardinality(events("err")) = 2

\* C9: when the SKU call fails every time, the retry controller stops after exactly
\* three calls, does not sleep after the last failure, and returns the error of the
\* third call itself; whatever the outcomes, it never makes more than three calls.
C9_RetryExhausted ==
  /\ Cardinality(events("sku")) <= 3
  /\ Cardinality(events("err")) = 3 =>
       /\ Cardinality(events("sku")) = 3
       /\ log[Len(log)].e = "err"
       /\ Len(sleeps(log)) = 2
       /\ pc = "ret"
       /\ ret = try_get_sku_information_result(received.resp)
       /\ ~ret.ok
       /\ ret.fmt[1] # "Failed to get SKU information after "

C9_Witness ==
  /\ pc = "ret"
  /\ ~ret.ok
  /\ Cardinality(events("err")) = 3

\* The failure of a response is transient: the request was not sent, or the body is
\* empty or no document.
Transient(resp) == ~resp.sent \/ resp.text = <<>> \/ resp.json = <<>>

\* C10: in get_languages a transient failure of a branch's first SKU-information
\* call is followed by another attempt instead of ending get_languages.
C10_SkuCallRetried ==
  (/\ received.what = "sku"
   /\ Transient(received.resp)
   /\ LastOf("sku").arg[2] = 0
   /\ events("err") # {}) =>
    pc = "sku"

\* C11: when the whitelist request of a branch fails, get_languages still makes
\* that branch's SKU-information request, with the same session id, and goes on.
C11_WhitelistFailureNonFatal ==
  (received.what = "whitelist" /\ ~received.resp.sent) =>
    /\ pc = "sku"
    /\ LastOf("sku").sid = LastOf("whitelist").sid
    /\ LastOf("sku").idx = LastOf("whitelist").idx

\* C12: whenever the whitelist request does not succeed, because it could not be
\* sent or because the status is not a success, whitelist_session reports a failure
\* instead of returning plain success.
C12_WhitelistFailureReported ==
  (/\ received.what = "whitelist"
   /\ \/ ~received.resp.sent
      \/ received.resp.status < 200
      \/ received.resp.status > 299) =>
    \E k \in events("err") :
      /\ log[k].arg = "whitelist"
      /\ \A j \in events("whitelist") : j < k

\* The positions of the entries of list whose lower-cased name contains the
\* lower-cased fragment, and the least of a set of positions.
Matching(list, fragment) ==
  {i \in 1..Len(list) : contains(to_lowercase(list[i].name), to_lowercase(fragment))}

Least(hits) == CHOOSE i \in hits : \A j \in hits : i <= j

\* The releases of the first catalog version matching v, <<>> if none matches.
MatchedReleases(v) ==
  IF Matching(get_windows_versions, v) = {} THEN <<>>
  ELSE get_windows_versions[Least(Matching(get_windows_versions, v))].releases

\* The editions of the first release matching r of the first version matching v.
MatchedEditions(v, r) ==
  IF Matching(MatchedReleases(v), r) = {} THEN <<>>
  ELSE MatchedReleases(v)[Least(Matching(MatchedReleases(v), r))].editions

NotFound(what, fragment) == <<what \o " '">> \o fragment \o <<"' not found">>

\* The error a command's selection strings must end in: the first of version,
\* release and (for the edition lookup of get_languages) edition that matches no
\* catalog entry; <<>> if all match.
Unmatched(c) ==
  IF Matching(get_windows_versions, c.version[1]) = {}
  THEN NotFound("Version", c.version[1])
  ELSE IF c.kind = "list_releases" THEN <<>>
  ELSE IF Matching(MatchedReleases(c.version[1]), c.release[1]) = {}
  THEN NotFound("Release", c.release[1])
  ELSE IF c.kind = "list_editions" THEN <<>>
  ELSE IF Matching(MatchedEditions(c.version[1], c.release[1]), c.edition[1]) = {}
  THEN NotFound("Edition", c.edition[1])
  ELSE <<>>

\* C13: get_available_versions, get_releases and get_editions return in the step
\* that calls them, with no request made and the session registry, the session
\* counter and the locale as they were; get_releases, get_editions and the edition
\* lookup of get_languages (made for every version that is not a firmware shell)
\* return "<Kind> '<fragment>' not found" exactly when the fragment is contained,
\* case-insensitively, in no name of the list searched.
C13_CatalogLookups ==
  [][(pc = "ready" /\ cmd'.kind \in {"list_versions", "list_releases", "list_editions",
                                     "list_languages"}) =>
       /\ cmd'.kind # "list_languages" =>
            /\ pc' = "done"
            /\ log' = <<>>
            /\ UNCHANGED <<session_ids, uuid_count, query_locale>>
       /\ (/\ cmd'.kind # "list_versions"
           /\ ~contains(to_lowercase(cmd'.version[1]), <<"u","e","f","i">>)
              \/ cmd'.kind # "list_languages") =>
            IF Unmatched(cmd') = <<>>
            THEN pc' = "done" => ret'.ok
            ELSE /\ pc' = "done"
                 /\ ~ret'.ok
                 /\ message(ret') = Unmatched(cmd')
                 /\ out'.result = <<ret'>>
                 /\ \A k \in DOMAIN log' : log'[k].e = "begin"]_vars

\* A release fragment that matches no release of the matched version has been
\* answered.
C13_Witness ==
  /\ pc = "done"
  /\ cmd.kind = "list_editions"
  /\ Matching(get_windows_versions, cmd.version[1]) # {}
  /\ ~ret.ok
  /\ message(ret) = NotFound("Release", <<"z","z">>)

\* C14: get_releases(v) returns the releases of the first catalog version whose
\* lower-cased name contains lower-cased v, in catalog order, each with its
\* position (from 0) as index; get_editions(v, r) returns the editions (name and
\* ids) of the first release of that version whose lower-cased name contains
\* lower-cased r, in catalog order.
C14_FirstMatchWins ==
  (pc = "done" /\ cmd.kind \in {"list_releases", "list_editions"} /\ ret.ok) =>
    IF cmd.kind = "list_releases"
    THEN /\ Len(ret.val) = Len(MatchedReleases(cmd.version[1]))
         /\ \A i \in 1..Len(ret.val) :
              /\ ret.val[i].name = MatchedReleases(cmd.version[1])[i].name
              /\ ret.val[i].index = i - 1
    ELSE /\ Len(ret.val) = Len(MatchedEditions(cmd.version[1], cmd.release[1]))
         /\ \A i \in 1..Len(ret.val) :
              /\ ret.val[i].name = MatchedEditions(cmd.version[1], cmd.release[1])[i].name
              /\ ret.val[i].id = MatchedEditions(cmd.version[1], cmd.release[1])[i].ids

\* Editions listed for fragments that each match several entries.
C14_Witness ==
  /\ pc = "done"
  /\ cmd.kind = "list_editions"
  /\ ret.ok
  /\ Cardinality(Matching(get_windows_versions, cmd.version[1])) > 1
  /\ Cardinality(Matching(MatchedReleases(cmd.version[1]), cmd.release[1])) > 1
  /\ Least(Matching(MatchedReleases(cmd.version[1]), cmd.release[1])) > 1

\* The language names of the Skus the SKU requests of the invocation brought back.
ReturnedLanguages ==
  UNION {{log[k].arg[j].language : j \in DOMAIN log[k].arg} : k \in events("skus")}

\* The Skus of language among skus, as (branch, skuId) entries in their order.
EntriesOf(skus, session_index, language) ==
  LET hits == {j \in DOMAIN skus : skus[j].language = language}
  IN  [n \in 1..Cardinality(hits) |->
         [session_index |-> session_index,
          sku_id |-> skus[CHOOSE j \in hits :
                            Cardinality({h \in hits : h < j}) = n - 1].id]]

\* One entry per Sku of language brought back by the first k events of the log, in
\* the order the branches returned them.
RECURSIVE Filed(_, _)
Filed(k, language) ==
  IF k = 0 THEN <<>>
  ELSE Filed(k - 1, language)
       \o (IF log[k].e = "skus" THEN EntriesOf(log[k].arg, log[k].idx, language)
           ELSE <<>>)

\* records has one record per language brought back, holding exactly the entries
\* filed for that language.
GroupedByLanguage(records) ==
  /\ \A i, j \in DOMAIN records : records[i].name = records[j].name => i = j
  /\ {records[i].name : i \in DOMAIN records} = ReturnedLanguages
  /\ \A i \in DOMAIN records : records[i].data = Filed(Len(log), records[i].name)

\* C15: a successful get_languages for a version that is not a firmware shell
\* returns one record per distinct language name among the Skus its branches
\* brought back, and the record of a language holds one (branch, skuId) entry per Sku
\* of that language, in the order returned; the same holds of the records kept
\* while later branches are still being asked, so no entry is replaced or lost.
C15_SkusAccumulate ==
  /\ (/\ pc = "done"
      /\ cmd.kind = "list_languages"
      /\ ~contains(to_lowercase(cmd.version[1]), <<"u","e","f","i">>)
      /\ ret.ok) => GroupedByLanguage(ret.val)
  /\ (pc \in {"whitelist", "sku"} /\ frame.op # "get_sku_information_with_retry") =>
       GroupedByLanguage(frame.languages)

\* A language returned by both branches, next to one returned by a single branch.
C15_Witness ==
  /\ pc = "done"
  /\ cmd.kind = "list_languages"
  /\ ret.ok
  /\ Len(ret.val) = 2
  /\ \E i \in DOMAIN ret.val :
       /\ Len(ret.val[i].data) = 3
       /\ ret.val[i].data[1].session_index = 0
       /\ ret.val[i].data[3].session_index = 1

\* The download-links requests of the log are the first n entries of data, one
\* request per entry, in entry order.
LinksCalls(n, data) ==
  /\ Cardinality(events("links")) = n
  /\ n <= Len(data)
  /\ \A k \in events("links") :
       LET entry == data[Cardinality({j \in events("links") : j <= k})]
       IN  log[k].arg = entry.sku_id /\ log[k].idx = entry.session_index

\* One (architecture name, URI) pair per download option brought back by the first
\* k events of the log, in the order returned.
RECURSIVE Collected(_)
Collected(k) ==
  IF k = 0 THEN <<>>
  ELSE Collected(k - 1)
       \o (IF log[k].e = "options"
           THEN [j \in DOMAIN log[k].arg |->
                   [name |-> get_arch_from_type(log[k].arg[j].download_type),
                    url |-> log[k].arg[j].uri]]
           ELSE <<>>)

\* C16: while get_architectures asks for download links, the entries it walks are
\* those accumulated for one language and its requests so far are the first of
\* these entries, one each and in order; when it succeeds for a version that is not
\* a firmware shell, it has made one request per entry and returns one (name, URI)
\* pair per option of every response, in the order of the entries.
C16_LinksPerEntry ==
  /\ pc \in {"links", "page"} =>
       /\ \E l \in ReturnedLanguages : frame.data = Filed(Len(log), l)
       /\ LinksCalls(frame.entry, frame.data)
  /\ (/\ pc = "done"
      /\ cmd.kind = "list_architectures"
      /\ ~contains(to_lowercase(cmd.version[1]), <<"u","e","f","i">>)
      /\ ret.ok) =>
       /\ \E l \in ReturnedLanguages :
            LinksCalls(Len(Filed(Len(log), l)), Filed(Len(log), l))
       /\ Cardinality(events("options")) = Cardinality(events("links"))
       /\ ret.val = Collected(Len(log))

\* Architectures listed from three entries over two branches, one response with
\* several options and one with none.
C16_Witness ==
  /\ pc = "done"
  /\ cmd.kind = "list_architectures"
  /\ ret.ok
  /\ Cardinality(events("links")) = 3
  /\ {log[k].idx : k \in events("links")} = {0, 1}
  /\ \E k \in events("options") : Len(log[k].arg) > 1
  /\ \E k \in events("options") : log[k].arg = <<>>
  /\ Len(ret.val) > 3

\* C17: get_arch_from_type maps the type code 0 to "x86", 1 to "x64", 2 to "ARM64"
\* and every other code to "Unknown".
C17_ArchTable ==
  (pc = "done" /\ received.what = "option") =>
    ret = Ok(IF received.resp.download_type = 0 THEN <<"x","8","6">>
             ELSE IF received.resp.download_type = 1 THEN <<"x","6","4">>
             ELSE IF received.resp.download_type = 2 THEN <<"A","R","M","6","4">>
             ELSE <<"U","n","k","n","o","w","n">>)

\* The code 99 of the unit test has been mapped.
C17_Witness ==
  /\ pc = "done"
  /\ received.what = "option"
  /\ received.resp.download_type = 99
  /\ ret.val = <<"U","n","k","n","o","w","n">>

\* get_download_url has returned to the download command after get_architectures
\* succeeded: the last thing logged is a response's options or, for a firmware
\* shell, the request for Version.xml.
UrlLookupMade ==
  /\ pc \in {"download", "done"}
  /\ cmd.kind = "download"
  /\ log # <<>>
  /\ log[1].arg = "get_download_url"
  /\ log[Len(log)].e \in {"options", "xml"}

\* The architectures get_architectures collected in that invocation.
CollectedArchitectures ==
  IF log[Len(log)].e = "options" THEN Collected(Len(log))
  ELSE get_uefi_shell_architectures_result(
         received.resp, uefi_link(stage.version, stage.release, stage.edition)).val

\* The positions of the collected architectures whose name equals the requested
\* one, letter case aside.
SameName ==
  {i \in DOMAIN CollectedArchitectures :
     to_lowercase(CollectedArchitectures[i].name) = to_lowercase(stage.architecture)}

\* C18: get_download_url returns the URI of the first collected architecture whose
\* name equals the requested name case-insensitively, and the error
\* "Architecture '<requested>' not found" when no collected name equals it.
C18_ExactArchitecture ==
  UrlLookupMade =>
    IF SameName = {}
    THEN /\ ~ret.ok
         /\ message(ret) = NotFound("Architecture", stage.architecture)
         /\ pc = "done"
         /\ out.result = <<ret>>
    ELSE ret = Ok(CollectedArchitectures[Least(SameName)].url)

\* "ARM64" was requested and only x64 options were discovered.
C18_Witness ==
  /\ UrlLookupMade
  /\ stage.architecture = <<"A","R","M","6","4">>
  /\ CollectedArchitectures # <<>>
  /\ \A i \in DOMAIN CollectedArchitectures :
       CollectedArchitectures[i].name = <<"x","6","4">>
  /\ ~ret.ok

\* The responses of scenario A so far: no request failed, no ban page was asked
\* for, every SKU response held one Sku of language "English" and every
\* download-links response one option of type 1.
ScenarioAResponses ==
  /\ events("err") = {}
  /\ events("page") = {}
  /\ \A k \in events("skus") : Len(log[k].arg) = 1 /\ log[k].arg[1].language = English
  /\ \A k \in events("options") : log[k].arg = <<Option(IsoX64, 1)>>

\* C19: `download --version "Windows 11" --language English --architecture x64`,
\* release and edition left to the first listed, with such responses: when the
\* command is over, get_download_url has returned the option's URI and it has been
\* handed to the downloader, after one SKU request per id of the edition
\* (3113, 3131) and one download-links request per branch.
C19_ScenarioA ==
  (/\ cmd = Cmd("download", Some(Windows11), None, None, Some(English),
                Some(<<"x","6","4">>), FALSE)
   /\ pc \in {"download", "done"}
   /\ ScenarioAResponses) =>
    /\ pc = "download"
    /\ ret = Ok(IsoX64)
    /\ out.download = Some(IsoX64)
    /\ stage.release = get_windows_versions[1].releases[1].name
    /\ stage.edition = get_windows_versions[1].releases[1].editions[1].name
    /\ {<<log[k].idx, log[k].arg[1]>> : k \in events("sku")} = {<<0, 3113>>, <<1, 3131>>}
    /\ Cardinality(events("sku")) = 2
    /\ {log[k].idx : k \in events("links")} = {0, 1}
    /\ Cardinality(events("links")) = 2

\* Scenario A has run to its end.
C19_Witness ==
  /\ cmd = Cmd("download", Some(Windows11), None, None, Some(English),
               Some(<<"x","6","4">>), FALSE)
  /\ pc = "download"
  /\ ScenarioAResponses
  /\ Cardinality(events("options")) = 2
  /\ system_locale # EnUS

\* C20: `download --version "UEFI Shell 2.2" --release "25H1 (edk2-stable202505)"
\* --edition Release --get-url`, architecture left to the default, always ends well
\* with the RELEASE image of tag 25H1 printed and no SKU or download-links request
\* made, whatever the fetches of Version.xml bring.
C20_ScenarioB ==
  (/\ cmd = Cmd("download", Some(UefiShell22), Some(Release25H1),
                Some(<<"R","e","l","e","a","s","e">>), None, None, TRUE)
   /\ pc = "done") =>
    /\ out.result = <<Ok(<<>>)>>
    /\ out.lines # <<>>
    /\ out.lines[Len(out.lines)] =
         <<"https://github.com/pbatard/UEFI-Shell/releases/download/", "2", "5", "H", "1",
           "/UEFI-Shell-", "2", ".", "2", "-", "2", "5", "H", "1", "-RELEASE.iso">>
    /\ events("sku") = {}
    /\ events("links") = {}

\* C21: the probe of the system locale is made once and its answer always leaves
\* the program ready for its command: with the query locale the system locale if a
\* response came with a status from 200 to 299, and "en-US" for any other status
\* or if the request could not be sent.  No second probe follows.
C21_LocaleProbe ==
  [][/\ pc = "probe" =>
          /\ pc' = "ready"
          /\ log' = log
          /\ Cardinality(events("probe")) = 1
          /\ LastOf("probe").locale = system_locale
          /\ query_locale' =
               IF /\ received'.resp.sent
                  /\ received'.resp.status >= 200
                  /\ received'.resp.status <= 299
               THEN system_locale
               ELSE <<"e","n","-","U","S">>
     /\ pc # "probe" => \A k \in DOMAIN log' : log'[k].e # "probe"]_vars

\* The probe of a French host was answered with status 404.
C21_Witness ==
  /\ pc = "ready"
  /\ received.what = "probe"
  /\ received.resp.status = 404
  /\ system_locale = FrFR
  /\ query_locale = EnUS

\* C22: once the probe is answered, no step changes the query locale, whether an
\* operation succeeds or fails, and every SKU-information, download-links and
\* ban-message request made carries that locale.
C22_LocaleFixed ==
  [][/\ pc # "probe" => query_locale' = query_locale
     /\ \A k \in DOMAIN log' :
          log'[k].e \in {"sku", "links", "page"} => log'[k].locale = query_locale']_vars

\* A run in the adopted system locale that got as far as the ban-message page and
\* ended with an error.
C22_Witness ==
  /\ pc = "done"
  /\ query_locale = FrFR
  /\ ~ret.ok
  /\ events("sku") # {}
  /\ events("links") # {}
  /\ events("page") # {}

\* C23: once a download-links request has been made in a run, no step makes a
\* whitelist or SKU-information request or creates or replaces a session.
C23_NoBackwardTransition ==
  [][events("links") # {} =>
       /\ uuid_count' = uuid_count
       /\ session_ids' = session_ids
       /\ \A k \in DOMAIN log' :
            log'[k].e \in {"whitelist", "sku"} => (k \in DOMAIN log /\ log[k] = log'[k])]_vars

\* The requests to the vendor in the log: whitelist, SKU-information and
\* download-links.
VendorCalls == events("whitelist") \cup events("sku") \cup events("links")

\* C24: between any vendor request of an invocation and the next one, a pacing
\* sleep takes place.
C24_PacedCalls ==
  \A j, k \in VendorCalls :
    (j < k /\ \A i \in VendorCalls : ~(j < i /\ i < k)) =>
      \E i \in events("sleep") : j < i /\ i < k

\* C25: in a download command the downloader is started only when --get-url is
\* absent and get_download_url returned a URL.  With --get-url a resolved URL is
\* printed as the last line and the command ends well; a failed resolution ends
\* the command with its error.  In both cases nothing is handed to the downloader.
C25_GetUrlOnly ==
  cmd.kind = "download" =>
    /\ (pc = "download" \/ out.download # None) =>
         /\ ~cmd.get_url
         /\ ret.ok
         /\ stage.at = "url"
         /\ pc = "download"
         /\ out.download = Some(ret.val)
    /\ (pc = "done" /\ out.result = Some(Ok(<<>>))) =>
         /\ cmd.get_url
         /\ ret.ok
         /\ stage.at = "url"
         /\ out.lines[Len(out.lines)] = ret.val
    /\ (pc = "done" /\ out.result # Some(Ok(<<>>))) =>
         /\ ~unwrap(out.result).ok
         /\ \A i \in DOMAIN out.lines : out.lines[i][1] = "Selected: "

\* A URL was resolved and printed under --get-url.
C25_Witness ==
  /\ cmd.kind = "download"
  /\ cmd.get_url
  /\ pc = "done"
  /\ out.result = Some(Ok(<<>>))
  /\ out.lines[Len(out.lines)] = IsoX64
  /\ out.download = None

\* The document of a response has a validation container with errors.
HasValidationErrors(resp) ==
  /\ resp.sent
  /\ resp.readable
  /\ resp.json # <<>>
  /\ resp.json[1].validation_container # <<>>
  /\ resp.json[1].validation_container[1].errors # <<>>

\* C26: on both endpoints a response whose validation container has errors yields
\* the API error of the first validation error, whatever the legacy error list
\* holds; even when its first entry has the ban sentinel type, no ban-message page
\* is asked for and the error is not the ban error.
C26_ValidationFirst ==
  (received.what \in {"sku", "links"} /\ HasValidationErrors(received.resp)) =>
    /\ pc = "done"
    /\ events("page") = {}
    /\ out.result = <<ret>>
    /\ ~ret.ok
    /\ starts_with(message(ret), <<"API error: ">>)
    /\ contains(message(ret), received.resp.json[1].validation_container[1].errors[1])
    /\ ~contains(message(ret), <<"715-", "123130">>)
    /\ ~contains(message(ret), <<"B","a","n","n","e","d">>)

\* A download-links response with a validation error and a ban entry was handled.
C26_Witness ==
  /\ received.what = "links"
  /\ HasValidationErrors(received.resp)
  /\ HasLegacyError(received.resp)
  /\ received.resp.json[1].errors[1][1].error_type = 9
  /\ pc = "done"

\* C27: when an attempt of the retry controller is answered with a vendor error
\* (a validation error, or a first legacy error of a type other than the ban
\* sentinel), the controller returns that error at once: no sleep and no further
\* request follows the failure.
C27_ApiErrorNotRetried ==
  (/\ received.what = "sku"
   /\ \/ HasValidationErrors(received.resp)
      \/ OtherShaped(received.resp) /\ NoValidationErrors(received.resp)) =>
    /\ pc = "ret"
    /\ ~ret.ok
    /\ starts_with(message(ret), <<"API error: ">>)
    /\ log[Len(log)].e = "err"

\* C28: every SKU-information request, first attempt or retry, is immediately
\* preceded by a short sleep of its own (shorter than the pacing sleep of 500 ms
\* and more), which in get_languages comes after the pacing sleep.
C28_ShortDelayPerAttempt ==
  \A k \in events("sku") :
    /\ k > 2
    /\ log[k - 1].e = "sleep"
    /\ log[k - 1].arg[2] < 500
    /\ log[k - 2].e = "sleep"

\* C29: `download --version "UEFI Shell 2.2" --edition Debug --architecture x64
\* --get-url`: when Version.xml cannot be fetched or holds no <arch> element, the
\* architectures fall back to x64, ARM64 and IA32, so the command ends well with
\* the DEBUG image of the first release printed.
C29_FirmwareFallback ==
  (/\ cmd = Cmd("download", Some(UefiShell22), None, Some(<<"D","e","b","u","g">>), None,
                Some(<<"x","6","4">>), TRUE)
   /\ pc = "done"
   /\ received.what = "xml"
   /\ \/ ~received.resp.sent
      \/ ~received.resp.readable
      \/ received.resp.status < 200
      \/ received.resp.status > 299
      \/ \A i \in DOMAIN received.resp.text : received.resp.text[i] # "<arch>") =>
    /\ out.result = Some(Ok(<<>>))
    /\ out.lines[Len(out.lines)] =
         <<"https://github.com/pbatard/UEFI-Shell/releases/download/", "2", "5", "H", "1",
           "/UEFI-Shell-", "2", ".", "2", "-", "2", "5", "H", "1", "-DEBUG.iso">>

\* The last response is a failed whitelist, SKU-information or download-links
\* call: not sent, no document, or a document reporting an error.
CallFailed ==
  \/ received.what = "whitelist" /\ ~received.resp.sent
  \/ /\ received.what \in {"sku", "links"}
     /\ \/ Transient(received.resp)
        \/ HasValidationErrors(received.resp)
        \/ HasLegacyError(received.resp)

\* C30: when the whitelist or SKU-information call of a branch, or the
\* download-links call of an entry, fails, the operation and the command end with
\* an error: no vendor request for a later branch or entry is made (only the
\* ban-message page may still be asked for), the failure is the last thing logged,
\* and no list is returned or printed.
C30_ErrorsTerminal ==
  /\ CallFailed =>
       \/ pc = "page" /\ received.what = "links" /\ events("err") = {}
       \/ pc = "done" /\ events("err") # {}
  /\ events("err") # {} =>
       /\ pc = "done"
       /\ log[Len(log)].e = "err"
       /\ Cardinality(events("err")) = 1
       /\ ~ret.ok
       /\ out.result = Some(ret)
       /\ out.download = None
       /\ \A i \in DOMAIN out.lines : out.lines[i][1] = "Selected: "
  /\ (received.what = "whitelist" /\ ~received.resp.sent) =>
       starts_with(message(ret), <<"Session whitelisting failed: ">>)

\* The SKU-information call of the first of two branches failed.
C30_Witness ==
  /\ pc = "done"
  /\ cmd.kind = "list_languages"
  /\ cmd.version = Some(Windows11)
  /\ received.what = "sku"
  /\ Transient(received.resp)
  /\ Cardinality(events("whitelist")) = 1
  /\ LastOf("sku").idx = 0

\* The requests in the log, of any kind.
Requests == VendorCalls \cup events("page") \cup events("xml")

\* Between the positions j and k of the log, the call of kind what was completed.
CompletedBetween(what, j, k) ==
  \E d \in events("ok") \cup events("err") : j < d /\ d < k /\ log[d].arg = what

\* C31: within a pipeline operation the requests are made one at a time: the one
\* awaited is the last thing logged, and every earlier vendor call was completed
\* before the next request was made (a download-links call answered with a ban
\* being followed by the ban-message request).  A branch's session id is in the
\* registry while its whitelist and SKU-information calls are awaited; its SKU
\* call follows the completed whitelist call of the same session; the whitelist
\* call of branch i+1 follows the completed SKU call of branch i; and every
\* download-links call follows every SKU call, all completed.
C31_Sequential ==
  /\ pc \in {"whitelist", "sku", "links", "page", "xml"} => log[Len(log)].e = pc
  /\ \A j \in VendorCalls, k \in Requests :
       j < k => \/ CompletedBetween(log[j].e, j, k)
                \/ log[j].e = "links" /\ log[k].e = "page" /\ k = j + 1
  /\ (pc \in {"whitelist", "sku"} /\ frame.op # "get_sku_information_with_retry") =>
       /\ log[Len(log)].idx \in DOMAIN session_ids
       /\ session_ids[log[Len(log)].idx] = log[Len(log)].sid
  /\ \A k \in events("sku") :
       \E w \in events("whitelist") :
         /\ w < k
         /\ log[w].idx = log[k].idx
         /\ log[w].sid = log[k].sid
         /\ CompletedBetween("whitelist", w, k)
         /\ \A r \in Requests : ~(w < r /\ r < k)
  /\ \A w \in events("whitelist") :
       log[w].idx > 0 =>
         \E k \in events("sku") :
           k < w /\ log[k].idx = log[w].idx - 1 /\ CompletedBetween("sku", k, w)
  /\ \A l \in events("links"), k \in events("sku") : k < l /\ CompletedBetween("sku", k, l)

\* The download-links call of the second branch is awaited.
C31_Witness ==
  /\ pc = "links"
  /\ Cardinality(events("whitelist")) = 2
  /\ Cardinality(events("sku")) = 2
  /\ LastOf("links").idx = 1
  /\ Cardinality(events("links")) > 1

\* The error of a failed session lookup, whatever the index.
SessionNotFound(r) ==
  ~r.ok /\ r.fmt = <<"Session ID not found for index ", "{}">>

\* C32: the session lookup of get_architectures never fails: every entry being
\* worked through names a branch whose session id is in the registry, every
\* download-links request carries the registry's session id of its entry's
\* branch, and neither an operation nor a command ends with "Session ID not
\* found".
C32_SessionFound ==
  /\ ~SessionNotFound(ret)
  /\ is_some(out.result) => ~SessionNotFound(unwrap(out.result))
  /\ \A k \in DOMAIN frame.data : frame.data[k].session_index \in DOMAIN session_ids
  /\ \A l \in events("links") :
       /\ log[l].idx \in DOMAIN session_ids
       /\ session_ids[log[l].idx] = log[l].sid

\* The lookup for an entry of the second branch succeeded after the whole list of
\* the first branch was worked through.
C32_Witness ==
  /\ pc = "links"
  /\ Len(frame.data) > 1
  /\ frame.entry = Len(frame.data)
  /\ frame.data[frame.entry].session_index = 1
  /\ DOMAIN session_ids = {0, 1}
  /\ LastOf("links").sid = session_ids[1]

\* The (event, position) pairs of the Skus brought back whose language contains
\* fragment, case-insensitively.
MatchingSkus(fragment) ==
  {p \in events("skus") \X (1..2) :
     /\ p[2] \in DOMAIN log[p[1]].arg
     /\ contains(to_lowercase(log[p[1]].arg[p[2]].language), to_lowercase(fragment))}

\* The language of the first Sku in vendor order (branch order, then response
\* order) that matches fragment.
FirstMatch(fragment) ==
  LET p == CHOOSE p \in MatchingSkus(fragment) :
             \A q \in MatchingSkus(fragment) :
               p[1] < q[1] \/ (p[1] = q[1] /\ p[2] <= q[2])
  IN  log[p[1]].arg[p[2]].language

\* C33: when get_architectures has looked the language up, the record it works
\* through is that of the first language in vendor order whose name contains the
\* fragment.
C33_FirstMatchWins ==
  (/\ pc = "links"
   /\ frame.op = "get_architectures"
   /\ MatchingSkus(frame.language_name) # {}) =>
    frame.data = Filed(Len(log), FirstMatch(frame.language_name))

\* The Skus brought back by the first k events of the log, in vendor order.
RECURSIVE Discovered(_)
Discovered(k) ==
  IF k = 0 THEN <<>>
  ELSE Discovered(k - 1) \o (IF log[k].e = "skus" THEN log[k].arg ELSE <<>>)

\* The language of the first of skus that starts with locale, else of the first
\* that starts with "en", else of the first.
FirstAvailable(skus, locale) ==
  LET a == first({i \in DOMAIN skus : starts_with(skus[i].language, locale)})
      b == first({i \in DOMAIN skus : starts_with(skus[i].language, <<"e","n">>)})
  IN  skus[IF a # 0 THEN a ELSE IF b # 0 THEN b ELSE 1].language

\* C34: when the download command has no --language and the last SKU response of
\* its get_languages call lets it go on, the language taken is the first
\* discovered, in vendor order, whose name starts with the system locale, else the
\* first that starts with "en", else the first discovered.
C34_DefaultLanguage ==
  [][(/\ cmd.kind = "download"
      /\ pc = "sku"
      /\ stage.at = "language"
      /\ stage'.at # "language") =>
       LET r == try_get_sku_information_result(received'.resp)
       IN  stage'.language =
             FirstAvailable(Discovered(Len(log))
                            \o (IF is_some(r.val.skus) THEN unwrap(r.val.skus) ELSE <<>>),
                            system_locale)]_vars

\* The last element of the link of a firmware-shell image for edition_name.
IsoSuffix(edition_name) ==
  IF contains(to_lowercase(edition_name), <<"r","e","l","e","a","s","e">>)
  THEN "-RELEASE.iso" ELSE "-DEBUG.iso"

\* records is one architecture record whose URL ends as edition_name requires.
OneImage(records, edition_name) ==
  /\ Len(records) = 1
  /\ records[1].url[Len(records[1].url)] = IsoSuffix(edition_name)

C36_RegistryKept ==
  [][/\ DOMAIN session_ids \subseteq DOMAIN session_ids'
     /\ \A k \in DOMAIN session_ids :
          \/ session_ids'[k] = session_ids[k]
          \/ /\ pc' = "whitelist"
             /\ log'[Len(log')].idx = k
             /\ log'[Len(log')].sid = session_ids'[k]
     /\ (/\ pc \in {"whitelist", "sku"}
         /\ frame.op # "get_sku_information_with_retry"
         /\ pc' = "done"
         /\ ~ret'.ok) =>
          /\ session_ids' = session_ids
          /\ frame.session_index \in DOMAIN session_ids'
          /\ session_ids'[frame.session_index] = LastOf(pc).sid
          /\ \A w \in events("whitelist") :
               log[w].idx \in DOMAIN session_ids' /\ session_ids'[log[w].idx] = log[w].sid]_vars

\* The SKU call of the first branch failed in an operation that follows one which
\* registered both branches: the entry of the second branch is the earlier one.
C36_Witness ==
  /\ pc = "done"
  /\ ~ret.ok
  /\ received.what = "sku"
  /\ Cardinality(events("whitelist")) = 1
  /\ LastOf("sku").idx = 0
  /\ DOMAIN session_ids = {0, 1}
  /\ session_ids[0] = LastOf("sku").sid
  /\ session_ids[1] # session_ids[0]

\* The chunks among the first k events of the log l, end to end.
RECURSIVE Streamed(_, _)
Streamed(l, k) ==
  IF k = 0 THEN <<>>
  ELSE Streamed(l, k - 1) \o (IF l[k].e = "chunk" THEN l[k].arg ELSE <<>>)

\* C37: download leaves the output file as it was, neither created nor truncated,
\* and returns an error when the HEAD request fails, when the GET request fails
\* and when the GET response has a status that is not a success.  Once streaming,
\* a chunk that arrives and is written goes to the end of the file, so the file
\* holds the chunks in arrival order, and every position given to the progress bar
\* is the sum of the lengths of the chunks written up to then, one position per
\* chunk when the length is known.
C37_Download ==
  [][/\ pc = "head" =>
          /\ out'.file = out.file
          /\ ~received'.resp.sent => (pc' = "ret" /\ ~ret'.ok)
     /\ (pc = "get" /\ (~received'.resp.sent \/ ~is_success(received'.resp.status))) =>
          /\ pc' = "ret"
          /\ ~ret'.ok
          /\ out'.file = out.file
     /\ (pc = "chunk" /\ pc' = "chunk") =>
          /\ out'.file = Some(unwrap(out.file) \o unwrap(received'.resp).val)
          /\ out'.file = Some(Streamed(log', Len(log')))
          /\ \A k \in DOMAIN log' :
               log'[k].e = "position" =>
                 /\ log'[k].arg = Len(Streamed(log', k))
                 /\ log'[k - 1].e = "chunk"
          /\ is_some(frame.content_length) => log'[Len(log')].e = "position"]_vars

\* Three chunks, one of them empty, have been written, and the position given
\* after the last is the length of the file.
C37_Witness ==
  /\ pc = "chunk"
  /\ Cardinality({k \in DOMAIN log : log[k].e = "chunk"}) = 3
  /\ \E k \in DOMAIN log : log[k].e = "chunk" /\ log[k].arg = <<>>
  /\ out.file = Some(<<"b","c","a">>)
  /\ log[Len(log)].e = "position"
  /\ log[Len(log)].arg = 3
====
